---- MODULE Spec2Model ----
(***************************************************************************)
(* MailBudget: bank-notification e-mail -> budget transaction import.      *)
(*                                                                         *)
(* The document store (transactions, categories, accounts, the Gmail token *)
(* record), the ledger service (addTransaction / updateTransaction /       *)
(* deleteTransaction / moveMoney with their recalculations), the token     *)
(* manager (server and browser variants) and the two import coordinators   *)
(* (the scheduled cloud function and the interactive Settings sync).       *)
(*                                                                         *)
(* Money is an integer number of thousandths of a currency unit, so that   *)
(* 45.67 is 45670 and the 0.01 threshold of the flag rules is 10.          *)
(***************************************************************************)
EXTENDS Integers, Sequences, FiniteSets, TLC

VARIABLES
    transactions,   \* users/{uid}/transactions: a set of transaction documents
    categories,     \* users/u1/categories: id -> document (exists = FALSE: no document)
    accounts,       \* users/{uid}/accounts: id -> document
    config,         \* users/{uid}/config/gmail: uid -> token record (exists = FALSE: none)
    now,            \* Date.now(), in units of five minutes
    tokenCall,      \* the last completed getGmailAccessToken call (observer)
    unread,         \* the mailbox: ids of the messages carrying the UNREAD label
    run             \* the import runs: run id -> the run's local state

vars == <<transactions, categories, accounts, config, now, tokenCall,
          unread, run>>

(***************************************************************************)
(* Bounds of the model.                                                    *)
(***************************************************************************)
MaxTx == 2          \* transaction documents the ledger specification holds
MaxAssigned == 1    \* |assigned| stays within this many moved units

(***************************************************************************)
(* Values.                                                                 *)
(***************************************************************************)
None == "null"              \* null, or a field that is absent
Empty == ""                 \* the empty string
Falsy(x) == x \in {None, Empty}
Users == {"u1", "u2", "u3"}
AccountIds == {"a1", "a2", "b1", "c1"}
CategoryIds == {"food", "rent"}
Statuses == {"uncleared", "cleared"}
Amounts == {-45670, 30000}

RECURSIVE SumAmounts(_)
SumAmounts(S) ==
    IF S = {} THEN 0
    ELSE LET t == CHOOSE x \in S : TRUE
         IN  t.amount + SumAmounts(S \ {t})

TxIds(T) == {t.id : t \in T}
TxById(T, uid, id) == {t \in T : t.uid = uid /\ t.id = id}
\* addDoc's generated id: any id not in use (the smallest, ids carry no meaning)
NewId(T) == CHOOSE i \in 1..(Cardinality(T) + 1) :
                i \notin TxIds(T) /\ \A j \in 1..(i - 1) : j \in TxIds(T)

(***************************************************************************)
(* The ledger service.                                                     *)
(***************************************************************************)

\* recalculateCategoryActivity: sum the amounts of the category's
\* transactions; when the category document exists, write activity and
\* available = assigned - activity.
RecalculateCategoryActivityNoAvailable(T, C, uid, categoryId) ==
    LET totalActivity == SumAmounts({t \in T : t.uid = uid /\ t.category_id = categoryId})
    IN  IF C[categoryId].exists
        THEN [C EXCEPT ![categoryId].activity = totalActivity]
        ELSE C

RecalculateCategoryActivity(T, C, uid, categoryId) ==
    LET totalActivity == SumAmounts({t \in T : t.uid = uid /\ t.category_id = categoryId})
    IN  IF C[categoryId].exists
        THEN [C EXCEPT ![categoryId].activity = totalActivity,
                       ![categoryId].available = C[categoryId].assigned - totalActivity]
        ELSE C

\* recalculateAccountBalance: cleared_balance := sum of the amounts of all
\* transactions of the account, whatever their status.
AccountBalanceSum(T, uid, accountId) ==
    SumAmounts({t \in T : t.uid = uid /\ t.account_id = accountId})

\* A recalculation that adds the sum onto the stored balance.
RecalculateAccountBalanceOntoStored(T, A, uid, accountId) ==
    [A EXCEPT ![accountId].cleared_balance =
                  A[accountId].cleared_balance + AccountBalanceSum(T, uid, accountId)]

RecalculateAccountBalance(T, A, uid, accountId) ==
    [A EXCEPT ![accountId].cleared_balance = AccountBalanceSum(T, uid, accountId)]

\* A duplicate query that never finds anything.
IsDuplicateNever(T, uid, emailId) == FALSE

\* addTransaction, the duplicate check: a transaction with a non-empty
\* original_email_id is refused when one with the same id is stored.
IsDuplicate(T, uid, emailId) ==
    emailId # None /\ \E t \in T : t.uid = uid /\ t.original_email_id = emailId

\* addTransaction, after the duplicate check: addDoc, then the category
\* recalculation when category_id is set, then the account recalculation
\* when account_id is set.  The result is the store after the call.
AddTransactionResult(T, C, A, t) ==
    LET T1 == T \cup {t}
        C1 == IF t.category_id # None
              THEN RecalculateCategoryActivity(T1, C, t.uid, t.category_id) ELSE C
        A1 == IF t.account_id # None
              THEN RecalculateAccountBalance(T1, A, t.uid, t.account_id) ELSE A
    IN  [transactions |-> T1, categories |-> C1, accounts |-> A1]

\* The fields an update carries: `fields` names the keys present in the
\* updates object; a key that is absent reads as undefined.
Undefined == "undefined"
UpdField(upd, f) == IF f \in upd.fields THEN upd[f] ELSE Undefined
ApplyUpdates(old, upd) ==
    [id |-> old.id, uid |-> old.uid,
     amount |-> IF "amount" \in upd.fields THEN upd.amount ELSE old.amount,
     category_id |-> IF "category_id" \in upd.fields THEN upd.category_id ELSE old.category_id,
     account_id |-> IF "account_id" \in upd.fields THEN upd.account_id ELSE old.account_id,
     status |-> IF "status" \in upd.fields THEN upd.status ELSE old.status,
     original_email_id |-> old.original_email_id,
     flags |-> IF "flags" \in upd.fields THEN upd.flags ELSE old.flags]

\* An update that recalculates the new category alone.
UpdateTransactionResultNewOnly(T, C, A, old, upd) ==
    LET T1 == (T \ {old}) \cup {ApplyUpdates(old, upd)}
        newCat == UpdField(upd, "category_id")
    IN  [transactions |-> T1,
         categories |-> IF newCat \notin {None, Undefined}
                        THEN RecalculateCategoryActivity(T1, C, old.uid, newCat) ELSE C,
         accounts |-> A]

\* updateTransaction on a stored transaction `old`: updateDoc, then the old
\* category, the new category when it is set and differs, the old account
\* when the account or the status of the updates differs from the old one,
\* and the new account when it is set and differs.
UpdateTransactionResult(T, C, A, old, upd) ==
    LET T1 == (T \ {old}) \cup {ApplyUpdates(old, upd)}
        newCat == UpdField(upd, "category_id")
        newAcc == UpdField(upd, "account_id")
        newStatus == UpdField(upd, "status")
        C1 == IF old.category_id # None
              THEN RecalculateCategoryActivity(T1, C, old.uid, old.category_id) ELSE C
        C2 == IF newCat \notin {None, Undefined} /\ newCat # old.category_id
              THEN RecalculateCategoryActivity(T1, C1, old.uid, newCat) ELSE C1
        A1 == IF old.account_id # None
                 /\ (newAcc # old.account_id \/ newStatus # old.status)
              THEN RecalculateAccountBalance(T1, A, old.uid, old.account_id) ELSE A
        A2 == IF newAcc \notin {None, Undefined} /\ newAcc # old.account_id
              THEN RecalculateAccountBalance(T1, A1, old.uid, newAcc) ELSE A1
    IN  [transactions |-> T1, categories |-> C2, accounts |-> A2]

\* deleteTransaction on a stored transaction `old`.
DeleteTransactionResult(T, C, A, old) ==
    LET T1 == T \ {old}
        C1 == IF old.category_id # None
              THEN RecalculateCategoryActivity(T1, C, old.uid, old.category_id) ELSE C
        A1 == IF old.account_id # None
              THEN RecalculateAccountBalance(T1, A, old.uid, old.account_id) ELSE A
    IN  [transactions |-> T1, categories |-> C1, accounts |-> A1]

\* moveMoney: both categories are read, then from and to are written with
\* the new assigned and available = assigned - activity.
MoveMoneyResult(C, from, to, amount) ==
    LET C1 == [C EXCEPT ![from].assigned = C[from].assigned - amount,
                        ![from].available = C[from].assigned - amount - C[from].activity]
    IN  [C1 EXCEPT ![to].assigned = C[to].assigned + amount,
                   ![to].available = C[to].assigned + amount - C[to].activity]

(***************************************************************************)
(* The flag rules.                                                         *)
(***************************************************************************)
UnusualHigh == 10000 * 1000
UnusualLow == 10
Abs(x) == IF x < 0 THEN -x ELSE x

RuleCheck(id, email, parsed) ==
    CASE id = "currency_mismatch" -> email.disclaimer
      [] id = "low_confidence" -> parsed.confidence = "low"
      [] id = "missing_category" -> parsed.category_id = None
      [] id = "unusual_amount" ->
            IF parsed.amount = 0 THEN FALSE
            ELSE Abs(parsed.amount) > UnusualHigh \/ Abs(parsed.amount) < UnusualLow

FLAG_RULES == <<"currency_mismatch", "low_confidence", "missing_category", "unusual_amount">>

RECURSIVE FlagsFrom(_, _, _)
FlagsFrom(i, email, parsed) ==
    IF i > Len(FLAG_RULES) THEN <<>>
    ELSE (IF RuleCheck(FLAG_RULES[i], email, parsed)
          THEN <<[reason |-> FLAG_RULES[i], message |-> <<"message", FLAG_RULES[i]>>,
                  created_at |-> now, resolved |-> FALSE]>>
          ELSE <<>>)
         \o FlagsFrom(i + 1, email, parsed)

CheckTransactionFlags(email, parsed) == FlagsFrom(1, email, parsed)

(***************************************************************************)
(* The ledger specification: one signed-in user working through the        *)
(* modals, one call at a time, every call running to completion.           *)
(***************************************************************************)
LedgerUser == "u1"
LedgerAccounts == {"a1", "a2"}
OpeningBalances == {0, 250000}
MoveAmount == 1000 * 1
NoFlags == <<>>

NewCategory == [exists |-> TRUE, assigned |-> 0, activity |-> 0, available |-> 0]
NoCategory == [exists |-> FALSE, assigned |-> 0, activity |-> 0, available |-> 0]
NewAccount(uid, opening, domain) ==
    [uid |-> uid, cleared_balance |-> opening, email_domain |-> domain]

NoConfig == [exists |-> FALSE, refresh |-> None, access |-> None, expiry |-> 0]
NoTokenCall == [impl |-> "none", result |-> "none", token |-> None, refreshCalls |-> 0,
                answerOk |-> FALSE]

InitLedger ==
    /\ transactions = {}
    /\ categories = [c \in CategoryIds |-> NewCategory]
    /\ \E o1 \in OpeningBalances :
          accounts = [a \in AccountIds |->
                        IF a = "a1" THEN NewAccount("u1", o1, "chase.com")
                        ELSE IF a = "a2" THEN NewAccount("u1", 0, None)
                        ELSE IF a = "b1" THEN NewAccount("u2", 0, "chase.com")
                        ELSE NewAccount("u3", 0, "chase.com")]
    /\ config = [u \in Users |-> NoConfig]
    /\ now = 0
    /\ tokenCall = NoTokenCall
    /\ unread = {}
    /\ run = <<>>

Store(r) ==
    /\ transactions' = r.transactions
    /\ categories' = r.categories
    /\ accounts' = r.accounts

\* AddTransactionModal.handleSubmit: payee, amount and account are required.
AddTransactionModalSubmit ==
    \E amount \in Amounts, acc \in LedgerAccounts,
       cat \in CategoryIds \cup {None}, status \in Statuses :
        LET id == NewId(transactions)
            t == [id |-> id, uid |-> LedgerUser, amount |-> amount, category_id |-> cat,
                  account_id |-> acc, status |-> status, original_email_id |-> None,
                  flags |-> NoFlags]
        IN  /\ Cardinality(transactions) < MaxTx
            /\ Store(AddTransactionResult(transactions, categories, accounts, t))
            /\ UNCHANGED <<config, now, tokenCall, unread, run>>

\* processEmailTransaction's addTransaction call for a parsed e-mail: refused
\* (nothing written) when the message id is already stored.
ImportedEmailAdd ==
    \E amount \in Amounts, conf \in {"high", "low"} :
        LET id == NewId(transactions)
            parsed == [amount |-> amount, confidence |-> conf, category_id |-> None]
            t == [id |-> id, uid |-> LedgerUser, amount |-> amount, category_id |-> None,
                  account_id |-> "a1", status |-> "uncleared", original_email_id |-> "m1",
                  flags |-> CheckTransactionFlags([disclaimer |-> FALSE], parsed)]
        IN  /\ Cardinality(transactions) < MaxTx
            /\ ~IsDuplicate(transactions, LedgerUser, "m1")
            /\ Store(AddTransactionResult(transactions, categories, accounts, t))
            /\ UNCHANGED <<config, now, tokenCall, unread, run>>

\* EditTransactionModal.handleSubmit: the form always sends amount,
\* category_id (null when none is chosen), account_id and status.
EditTransactionModalSubmit ==
    \E old \in transactions, amount \in Amounts, acc \in LedgerAccounts,
       cat \in CategoryIds \cup {None}, status \in Statuses :
        LET upd == [fields |-> {"amount", "category_id", "account_id", "status"},
                    amount |-> amount, category_id |-> cat, account_id |-> acc,
                    status |-> status]
        IN  /\ Store(UpdateTransactionResult(transactions, categories, accounts, old, upd))
            /\ UNCHANGED <<config, now, tokenCall, unread, run>>

\* FlaggedTransactionsModal.handleResolveFlag: a copy of the flags with the
\* one at flagIndex resolved, sent by updateTransaction as the only field.
ResolveOne(flags, flagIndex) == [flags EXCEPT ![flagIndex].resolved = TRUE]

\* The flags the modal shows for a transaction: the unresolved ones, each
\* with a button that passes its position in this list as flagIndex.
UnresolvedFlags(flags) == SelectSeq(flags, LAMBDA f : ~f.resolved)

HandleResolveFlagOn(old, flagIndex) ==
    LET upd == [fields |-> {"flags"}, flags |-> ResolveOne(old.flags, flagIndex)]
    IN  /\ Store(UpdateTransactionResult(transactions, categories, accounts, old, upd))
        /\ UNCHANGED <<config, now, tokenCall, unread>>

HandleResolveFlag ==
    \E old \in transactions :
        \E flagIndex \in DOMAIN UnresolvedFlags(old.flags) :
            HandleResolveFlagOn(old, flagIndex) /\ UNCHANGED run

\* A resolution that drops the flags it resolves.
ResolveAllDropping(flags) == <<>>

\* FlaggedTransactionsModal.handleResolveAllFlags: updateTransaction with
\* the flags alone.  Its button is shown with more than one flag unresolved.
ResolveAll(flags) == [i \in DOMAIN flags |-> [flags[i] EXCEPT !.resolved = TRUE]]

HandleResolveAllFlags ==
    \E old \in transactions :
        LET upd == [fields |-> {"flags"}, flags |-> ResolveAll(old.flags)]
        IN  /\ old.flags # NoFlags
            /\ Len(UnresolvedFlags(old.flags)) > 1
            /\ Store(UpdateTransactionResult(transactions, categories, accounts, old, upd))
            /\ UNCHANGED <<config, now, tokenCall, unread, run>>

\* EditTransactionModal.handleDelete.
EditTransactionModalDelete ==
    \E old \in transactions :
        /\ Store(DeleteTransactionResult(transactions, categories, accounts, old))
        /\ UNCHANGED <<config, now, tokenCall, unread, run>>

\* MoveMoneyModal.handleSubmit: a positive amount to another category.
MoveMoneyModalSubmit ==
    \E from \in CategoryIds, to \in CategoryIds :
        /\ from # to
        /\ categories[from].exists /\ categories[to].exists
        /\ categories[to].assigned + MoveAmount <= MaxAssigned * MoveAmount
        /\ categories' = MoveMoneyResult(categories, from, to, MoveAmount)
        /\ UNCHANGED <<transactions, accounts, config, now, tokenCall, unread, run>>

NextLedger ==
    \/ AddTransactionModalSubmit
    \/ ImportedEmailAdd
    \/ EditTransactionModalSubmit
    \/ HandleResolveFlag
    \/ HandleResolveAllFlags
    \/ EditTransactionModalDelete
    \/ MoveMoneyModalSubmit

SpecLedger == InitLedger /\ [][NextLedger]_vars

(***************************************************************************)
(* Ledger claims.                                                          *)
(***************************************************************************)
\* The transaction documents a step created, changed or deleted: those of
\* the old store that are gone and those of the new store that are new.
MutatedBefore == transactions \ transactions'
MutatedAfter == transactions' \ transactions
TouchedAccounts == {t.account_id : t \in MutatedBefore \cup MutatedAfter} \ {None}
TouchedCategories == {t.category_id : t \in MutatedBefore \cup MutatedAfter} \ {None}

\* C1: after any completed transaction mutation (add, delete, or update of
\* any subset of amount, account, category, status, flags) the
\* cleared_balance of every account the transaction references equals the
\* sum of the amounts of the transactions that reference that account.
C1_BalanceAfterMutation ==
    [][transactions' # transactions =>
         \A a \in TouchedAccounts :
            accounts'[a].cleared_balance = AccountBalanceSum(transactions', LedgerUser, a)]_vars

\* C2: after any completed addTransaction, updateTransaction or
\* deleteTransaction, every category the transaction referenced before or
\* after the call satisfies available = assigned - activity.
C2_EnvelopeAfterMutation ==
    [][transactions' # transactions =>
         \A c \in TouchedCategories :
            categories'[c].exists =>
                categories'[c].available = categories'[c].assigned - categories'[c].activity]_vars

\* C2 witness: a category with money assigned and with activity from a
\* transaction that references it.
C2_Witness ==
    \E t \in transactions :
        /\ t.category_id # None
        /\ categories[t.category_id].assigned # 0
        /\ categories[t.category_id].activity # 0
        /\ categories[t.category_id].available =
              categories[t.category_id].assigned - categories[t.category_id].activity

(***************************************************************************)
(* The token manager.  Time is counted in units of five minutes: the       *)
(* validity buffer (5 * 60 * 1000 ms) is 1, one hour (3600 s) is 12.       *)
(***************************************************************************)
MaxNow == 14                \* the clock stops here
TokenBuffer == 1
ServerExpiresIn == 12
PopupExpiresIn == 12
Tokens == {"t1", "t2"}      \* access tokens the provider hands out
EndpointExpiresIn == {1, 12}

\* What the token endpoint answers to a refresh request.
EndpointAnswers ==
    [ok : {TRUE}, access_token : Tokens, expires_in : EndpointExpiresIn]
    \cup {[ok |-> FALSE, access_token |-> None, expires_in |-> 0]}
\* What the consent popup yields: nothing, or an access token with or
\* without an id token.
PopupAnswers ==
    [ok : {TRUE}, accessToken : Tokens, idToken : {"id", None}]
    \cup {[ok |-> FALSE, accessToken |-> None, idToken |-> None]}

\* storeGmailTokens: setDoc with merge of the three token fields.
StoreGmailTokens(rec, at, refreshToken, accessToken, expiresIn) ==
    [exists |-> TRUE, refresh |-> refreshToken, access |-> accessToken,
     expiry |-> at + expiresIn]

\* A deletion that writes empty strings where the code writes null.
DeleteGmailTokensEmpty(rec) ==
    [exists |-> TRUE, refresh |-> Empty, access |-> Empty, expiry |-> 0]

\* deleteGmailTokens: setDoc with merge, the three fields set to null.
DeleteGmailTokens(rec) ==
    [exists |-> TRUE, refresh |-> None, access |-> None, expiry |-> 0]

TokenResult(result, token, calls, rec) ==
    [result |-> result, token |-> token, refreshCalls |-> calls, config |-> rec]

\* functions/src/index.ts getGmailAccessToken: no record or no refresh token
\* throws; a present access token with expiry > now + buffer is returned;
\* otherwise one refresh call, whose token is stored with a one hour expiry.
ServerGetGmailAccessToken(rec, at, answer) ==
    IF ~rec.exists THEN TokenResult("throw", None, 0, rec)
    ELSE IF Falsy(rec.refresh) THEN TokenResult("throw", None, 0, rec)
    ELSE IF rec.access # None /\ rec.expiry > at + TokenBuffer
         THEN TokenResult("ok", rec.access, 0, rec)
    ELSE IF ~answer.ok THEN TokenResult("throw", None, 1, rec)
    ELSE TokenResult("ok", answer.access_token, 1,
                     [rec EXCEPT !.access = answer.access_token,
                                 !.expiry = at + ServerExpiresIn])

\* gmailService getGmailAccessToken, the consent popup at its end.
ClientAuthorize(rec, at, calls, popup) ==
    IF ~popup.ok THEN TokenResult("throw", None, calls, rec)
    ELSE TokenResult("reauthorized", popup.accessToken, calls,
                     StoreGmailTokens(rec, at,
                                      IF Falsy(popup.idToken) THEN Empty ELSE popup.idToken,
                                      popup.accessToken, PopupExpiresIn))

\* gmailService getGmailAccessToken: a stored access token with an expiry is
\* returned while expiry > now + buffer; when it is not and a refresh token
\* is stored, one refresh call; everything else, a failed refresh included,
\* ends in the consent popup.
ClientGetGmailAccessToken(rec, at, answer, popup) ==
    IF rec.exists /\ rec.access # None /\ rec.expiry # 0
    THEN IF rec.expiry > at + TokenBuffer
         THEN TokenResult("ok", rec.access, 0, rec)
         ELSE IF ~Falsy(rec.refresh)
              THEN IF answer.ok
                   THEN TokenResult("ok", answer.access_token, 1,
                                    StoreGmailTokens(rec, at, rec.refresh,
                                                     answer.access_token, answer.expires_in))
                   ELSE ClientAuthorize(rec, at, 1, popup)
              ELSE ClientAuthorize(rec, at, 0, popup)
    ELSE ClientAuthorize(rec, at, 0, popup)

(***************************************************************************)
(* The token specification: one user's token record under calls of both    *)
(* variants, revocation and the passing of time.                           *)
(***************************************************************************)
TokenUser == "u1"

InitToken ==
    /\ transactions = {}
    /\ categories = [c \in CategoryIds |-> NewCategory]
    /\ accounts = [a \in AccountIds |-> NewAccount("u1", 0, None)]
    /\ config = [u \in Users |-> NoConfig]
    /\ now = 0
    /\ tokenCall = NoTokenCall
    /\ unread = {}
    /\ run = <<>>

TokenCallRecord(impl, r, answer) ==
    [impl |-> impl, result |-> r.result, token |-> r.token,
     refreshCalls |-> r.refreshCalls, answerOk |-> answer.ok]

ServerTokenCall ==
    \E answer \in EndpointAnswers :
        LET r == ServerGetGmailAccessToken(config[TokenUser], now, answer)
        IN  /\ config' = [config EXCEPT ![TokenUser] = r.config]
            /\ tokenCall' = TokenCallRecord("server", r, answer)
            /\ UNCHANGED <<transactions, categories, accounts, now, unread, run>>

ClientTokenCall ==
    \E answer \in EndpointAnswers, popup \in PopupAnswers :
        LET r == ClientGetGmailAccessToken(config[TokenUser], now, answer, popup)
        IN  /\ config' = [config EXCEPT ![TokenUser] = r.config]
            /\ tokenCall' = TokenCallRecord("client", r, answer)
            /\ UNCHANGED <<transactions, categories, accounts, now, unread, run>>

Revoke ==
    /\ config[TokenUser].exists
    /\ config' = [config EXCEPT ![TokenUser] = DeleteGmailTokens(config[TokenUser])]
    /\ tokenCall' = NoTokenCall
    /\ UNCHANGED <<transactions, categories, accounts, now, unread, run>>

Tick ==
    \E d \in {1, 10} :
        /\ now + d <= MaxNow
        /\ now' = now + d
        /\ tokenCall' = NoTokenCall
        /\ UNCHANGED <<transactions, categories, accounts, config, unread, run>>

NextToken == ServerTokenCall \/ ClientTokenCall \/ Revoke \/ Tick

SpecToken == InitToken /\ [][NextToken]_vars

(***************************************************************************)
(* Token claims.  A step is a call when it leaves a call record; the       *)
(* unprimed record and clock are those the call started from.              *)
(***************************************************************************)
Usable(rec, at) == rec.exists /\ rec.access # None /\ rec.expiry > at + TokenBuffer
HasRefreshToken(rec) == rec.exists /\ ~Falsy(rec.refresh)
IsTokenCall == tokenCall'.impl # "none"

\* C6: with an access token present and expiry > now + 5 minutes the call
\* makes no refresh call and returns the stored token, the record unchanged;
\* with the access token absent or expiry <= now + 5 minutes and a refresh
\* token stored it makes exactly one refresh call and, the endpoint
\* answering, stores the new token with an expiry later than now and
\* returns it.
C6_ReturnOrRefreshOnce ==
    [][IsTokenCall =>
        LET rec == config[TokenUser] IN
        /\ Usable(rec, now) =>
              /\ tokenCall'.refreshCalls = 0
              /\ tokenCall'.result = "ok"
              /\ tokenCall'.token = rec.access
              /\ config' = config
        /\ (~Usable(rec, now) /\ HasRefreshToken(rec)) =>
              /\ tokenCall'.refreshCalls = 1
              /\ tokenCall'.answerOk =>
                    /\ tokenCall'.result = "ok"
                    /\ config'[TokenUser].access = tokenCall'.token
                    /\ config'[TokenUser].access # None
                    /\ config'[TokenUser].expiry > now]_vars

\* C7: the call fails (AuthRequired: it throws, or in the browser ends in
\* the consent popup) exactly when the stored access token is not usable
\* and either no refresh token is stored or the refresh call fails; a
\* usable stored token is returned whether or not a refresh token is stored.
C7_AuthRequiredExactly ==
    [][IsTokenCall =>
        LET rec == config[TokenUser] IN
        /\ (tokenCall'.result # "ok") <=>
              (~Usable(rec, now) /\ (~HasRefreshToken(rec) \/ ~tokenCall'.answerOk))
        /\ Usable(rec, now) =>
              (tokenCall'.result = "ok" /\ tokenCall'.token = rec.access)]_vars

(***************************************************************************)
(* The import coordinators.                                                *)
(*                                                                         *)
(* An e-mail carries the domain its sender address yields (from), the      *)
(* linked domain whose search query returns it (listed) and whether its    *)
(* body carries the currency disclaimer.                                   *)
(***************************************************************************)
Runs == {"r1", "r2"}
Msgs == {"m1", "m2", "m3", "m4"}
MsgOrder == <<"m1", "m2", "m3", "m4">>
UserOrder == <<"u1", "u2", "u3">>
AccountOrder == <<"a1", "a2", "b1", "c1">>

Emails ==
    [m \in Msgs |->
        IF m = "m1" THEN [uid |-> "u1", listed |-> "chase.com", from |-> "chase.com",
                          disclaimer |-> FALSE]
        ELSE IF m = "m2" THEN [uid |-> "u1", listed |-> "chase.com", from |-> "chase.com",
                               disclaimer |-> TRUE]
        ELSE IF m = "m3" THEN [uid |-> "u2", listed |-> "boa.com", from |-> "mail.boa.com",
                               disclaimer |-> FALSE]
        ELSE [uid |-> "u3", listed |-> "chase.com", from |-> "chase.com",
              disclaimer |-> FALSE]]

\* What the extraction model yields for an e-mail: nothing, or a candidate.
NoParsed == [ok |-> FALSE, date |-> None, payee |-> None, amount |-> 0,
             confidence |-> "none", category_id |-> None]
Candidates ==
    {[ok |-> TRUE, date |-> "2024-11-15", payee |-> "STARBUCKS", amount |-> -45670,
      confidence |-> "high", category_id |-> None],
     [ok |-> TRUE, date |-> "2024-11-16", payee |-> "PAYROLL", amount |-> 30000,
      confidence |-> "low", category_id |-> None]}
ParseResults == Candidates \cup {NoParsed}

\* The answers of the provider an import run may meet.
RunEndpointAnswers ==
    {[ok |-> TRUE, access_token |-> "t2", expires_in |-> 12],
     [ok |-> FALSE, access_token |-> None, expires_in |-> 0]}
RunPopupAnswers ==
    {[ok |-> TRUE, accessToken |-> "t2", idToken |-> "id"],
     [ok |-> FALSE, accessToken |-> None, idToken |-> None]}

SeqOf(order, S) == SelectSeq(order, LAMBDA x : x \in S)
Range(q) == {q[i] : i \in DOMAIN q}

\* A search over the accounts of every user.
FindAccountByEmailDomainAnyUser(A, uid, domain) ==
    LET hits == SelectSeq(AccountOrder,
                          LAMBDA a : ~Falsy(A[a].email_domain) /\ A[a].email_domain = domain)
    IN  IF Falsy(domain) \/ hits = <<>> THEN None ELSE Head(hits)

\* findAccountByEmailDomain: the first account of the user, in enumeration
\* order, whose email_domain is set and equals the sender's domain.
UserAccounts(A, uid) == SeqOf(AccountOrder, {a \in AccountIds : A[a].uid = uid})
FindAccountByEmailDomain(A, uid, domain) ==
    LET hits == SelectSeq(UserAccounts(A, uid),
                          LAMBDA a : ~Falsy(A[a].email_domain) /\ A[a].email_domain = domain)
    IN  IF Falsy(domain) \/ hits = <<>> THEN None ELSE Head(hits)

\* The domains linked to the user's accounts.
LinkedDomains(A, uid) ==
    {A[a].email_domain : a \in {x \in AccountIds : A[x].uid = uid /\ ~Falsy(A[x].email_domain)}}

\* fetchEmailsFromDomain over the domains whose listing answered: the unread
\* messages of the user's mailbox the queries return, without those whose
\* own fetch failed.
ListedMessages(uid, domains) ==
    {m \in unread : Emails[m].uid = uid /\ Emails[m].listed \in domains}
FetchedEmails(uid, domains, lost) ==
    SeqOf(MsgOrder, ListedMessages(uid, domains) \ lost)

IdleRun(kind) ==
    [kind |-> kind, pc |-> "idle", users |-> <<>>, uid |-> None, token |-> None,
     emails |-> <<>>, idx |-> 0, parsed |-> NoParsed, account |-> None, sum |-> 0,
     imported |-> 0, skipped |-> 0,
     \* observers of the run
     enumerated |-> <<>>, tried |-> <<>>, failedUsers |-> {},
     attempts |-> <<>>, outcome |-> [m \in Msgs |-> "none"],
     created |-> {}, marked |-> {}, after |-> {}, listed |-> {}]

CurrentEmail(st) == st.emails[st.idx]

\* A loop that does not return after its last message.
NextMessageNoReturn(st) ==
    IF st.idx < Len(st.emails)
    THEN [st EXCEPT !.idx = st.idx + 1, !.pc = "parse", !.parsed = NoParsed,
                    !.account = None]
    ELSE [st EXCEPT !.idx = st.idx + 1, !.parsed = NoParsed, !.account = None,
                    !.pc = "summary"]

\* The end of one message: the next message, or the end of the loop (the
\* next user of a scheduled run, the summary of an interactive one).
NextMessage(st) ==
    IF st.idx < Len(st.emails)
    THEN [st EXCEPT !.idx = st.idx + 1, !.pc = "parse", !.parsed = NoParsed,
                    !.account = None]
    ELSE [st EXCEPT !.idx = st.idx + 1, !.parsed = NoParsed, !.account = None,
                    !.pc = IF st.kind = "scheduled" THEN "token" ELSE "done"]

\* A message that fails a stage, aborting the loop instead of going on.
SkipMessageAbort(st, reason) ==
    [st EXCEPT !.skipped = st.skipped + 1,
               !.outcome[CurrentEmail(st)] = reason,
               !.pc = IF st.kind = "scheduled" THEN "token" ELSE "done"]

\* A message whose failure is thrown on to the entry point.
SkipMessageRethrow(st, reason) ==
    [st EXCEPT !.skipped = st.skipped + 1,
               !.outcome[CurrentEmail(st)] = reason,
               !.pc = IF reason = "error" THEN "failed" ELSE "token"]

\* skipped++ and continue (the scheduled loop's continue statements and its
\* catch block; the interactive loop's else branch).
SkipMessage(st, reason) ==
    NextMessage([st EXCEPT !.skipped = st.skipped + 1,
                           !.outcome[CurrentEmail(st)] = reason])

\* A user whose processing fails, ending the run instead of going on.
FailUserAbort(st) ==
    [st EXCEPT !.failedUsers = st.failedUsers \cup {st.uid}, !.pc = "failed"]

\* The per-user catch block of the scheduled run: log, next user.
FailUser(st) ==
    [st EXCEPT !.failedUsers = st.failedUsers \cup {st.uid}, !.pc = "token"]

\* A created transaction that is stored as cleared.
NewTransactionCleared(T, uid, parsed, account, messageId, flags) ==
    [id |-> NewId(T), uid |-> uid, date |-> parsed.date, payee |-> parsed.payee,
     amount |-> parsed.amount, category_id |-> parsed.category_id,
     account_id |-> account, status |-> "cleared", original_email_id |-> messageId,
     flags |-> flags]

\* The document both coordinators create for a candidate (transactionsRef.add
\* in the scheduled run, the argument of addTransaction in the interactive).
NewTransaction(T, uid, parsed, account, messageId, flags) ==
    [id |-> NewId(T), uid |-> uid, date |-> parsed.date, payee |-> parsed.payee,
     amount |-> parsed.amount, category_id |-> parsed.category_id,
     account_id |-> account, status |-> "uncleared", original_email_id |-> messageId,
     flags |-> flags]

SetRun(r, st) == run' = [run EXCEPT ![r] = st]

----
\* syncEmailsHourly: the discovery query for the users holding a refresh
\* token; its failure fails the run, no user ends it.
SStart(r) ==
    /\ run[r].kind = "scheduled" /\ run[r].pc = "idle"
    /\ \E ok \in BOOLEAN :
         LET found == SeqOf(UserOrder, {u \in Users : config[u].exists
                                                      /\ config[u].refresh # None})
             st == [run[r] EXCEPT !.after = {q \in DOMAIN run : run[q].pc = "done"}]
         IN  SetRun(r, IF ~ok THEN [st EXCEPT !.pc = "failed"]
                       ELSE IF found = <<>> THEN [st EXCEPT !.pc = "done"]
                       ELSE [st EXCEPT !.pc = "token", !.users = found,
                                       !.enumerated = found])
    /\ UNCHANGED <<transactions, categories, accounts, config, now, tokenCall, unread>>

\* The loop over the users: the next user's access token.
SToken(r) ==
    /\ run[r].kind = "scheduled" /\ run[r].pc = "token" /\ run[r].users # <<>>
    /\ \E answer \in RunEndpointAnswers :
         LET uid == Head(run[r].users)
             res == ServerGetGmailAccessToken(config[uid], now, answer)
             st == [run[r] EXCEPT !.uid = uid, !.users = Tail(run[r].users),
                                  !.tried = Append(run[r].tried, uid),
                                  !.emails = <<>>, !.idx = 0, !.attempts = <<>>,
                                  !.listed = {}]
         IN  /\ config' = [config EXCEPT ![uid] = res.config]
             /\ SetRun(r, IF res.result = "ok"
                           THEN [st EXCEPT !.token = res.token, !.pc = "fetch"]
                           ELSE FailUser(st))
    /\ UNCHANGED <<transactions, categories, accounts, now, tokenCall, unread>>

\* The user's accounts, the linked domains and the unread e-mails of each.
SFetch(r) ==
    /\ run[r].kind = "scheduled" /\ run[r].pc = "fetch"
    /\ \E accountsOk \in BOOLEAN,
          answered \in SUBSET LinkedDomains(accounts, run[r].uid),
          lost \in SUBSET {m \in unread : Emails[m].uid = run[r].uid} :
         LET st == run[r]
             emails == FetchedEmails(st.uid, answered, lost)
         IN  SetRun(r, IF ~accountsOk THEN FailUser(st)
                       ELSE IF LinkedDomains(accounts, st.uid) = {} \/ emails = <<>>
                            THEN [st EXCEPT !.pc = "token"]
                       ELSE [st EXCEPT !.emails = emails, !.idx = 1, !.imported = 0,
                                       !.listed = ListedMessages(st.uid, answered),
                                       !.skipped = 0, !.pc = "parse"])
    /\ UNCHANGED <<transactions, categories, accounts, config, now, tokenCall, unread>>

\* No user is left.
SFinish(r) ==
    /\ run[r].kind = "scheduled" /\ run[r].pc = "token" /\ run[r].users = <<>>
    /\ SetRun(r, [run[r] EXCEPT !.pc = "done"])
    /\ UNCHANGED <<transactions, categories, accounts, config, now, tokenCall, unread>>

\* Both coordinators: the account of the sender's domain, then the
\* extraction model.
MatchAndParse(r) ==
    /\ run[r].pc = "parse"
    /\ \E p \in ParseResults :
         LET st == [run[r] EXCEPT !.attempts = Append(run[r].attempts, CurrentEmail(run[r]))]
             m == CurrentEmail(st)
             account == FindAccountByEmailDomain(accounts, st.uid, Emails[m].from)
         IN  SetRun(r, IF account = None THEN SkipMessage(st, "unmatched")
                       ELSE IF ~p.ok THEN SkipMessage(st, "parse")
                       ELSE [st EXCEPT !.account = account, !.parsed = p, !.pc = "dedup"])
    /\ UNCHANGED <<transactions, categories, accounts, config, now, tokenCall, unread>>

\* A duplicate query that has the duplicate marked read.
DedupQueryMarking(r) ==
    /\ run[r].pc = "dedup"
    /\ \E ok \in BOOLEAN :
         LET st == run[r]
             m == CurrentEmail(st)
         IN  /\ unread' = IF ok /\ IsDuplicate(transactions, st.uid, m)
                          THEN unread \ {m} ELSE unread
             /\ SetRun(r, IF ~ok THEN SkipMessage(st, "error")
                           ELSE IF IsDuplicate(transactions, st.uid, m)
                                THEN SkipMessage(st, "duplicate")
                           ELSE [st EXCEPT !.pc = "add"])
    /\ UNCHANGED <<transactions, categories, accounts, config, now, tokenCall>>

\* The duplicate query by original_email_id (the scheduled run's own, the
\* interactive run's inside addTransaction): a match is a skip, a failing
\* query an error that skips the message.
DedupQuery(r) ==
    /\ run[r].pc = "dedup"
    /\ \E ok \in BOOLEAN :
         LET st == run[r]
             m == CurrentEmail(st)
         IN  SetRun(r, IF ~ok THEN SkipMessage(st, "error")
                       ELSE IF IsDuplicate(transactions, st.uid, m)
                            THEN SkipMessage(st, "duplicate")
                       ELSE [st EXCEPT !.pc = "add"])
    /\ UNCHANGED <<transactions, categories, accounts, config, now, tokenCall, unread>>

\* syncEmailsHourly: transactionsRef.add, then imported++.
SAdd(r) ==
    /\ run[r].kind = "scheduled" /\ run[r].pc = "add"
    /\ \E ok \in BOOLEAN :
         LET st == run[r]
             m == CurrentEmail(st)
             t == NewTransaction(transactions, st.uid, st.parsed, st.account, m, NoFlags)
         IN  IF ok
             THEN /\ transactions' = transactions \cup {t}
                  /\ SetRun(r, [st EXCEPT !.imported = st.imported + 1,
                                          !.created = st.created \cup {m},
                                          !.outcome[m] = "imported", !.pc = "mark"])
             ELSE /\ UNCHANGED transactions
                  /\ SetRun(r, SkipMessage(st, "error"))
    /\ UNCHANGED <<categories, accounts, config, now, tokenCall, unread>>

\* A marking whose failure reaches the catch block of the message: the
\* message is counted as skipped and no longer as imported.
SMarkUncaught(r) ==
    /\ run[r].kind = "scheduled" /\ run[r].pc = "mark"
    /\ \E ok \in BOOLEAN :
         LET st == run[r]
             m == CurrentEmail(st)
         IN  /\ unread' = IF ok THEN unread \ {m} ELSE unread
             /\ SetRun(r, IF ok THEN NextMessage([st EXCEPT !.marked = st.marked \cup {m}])
                           ELSE SkipMessage([st EXCEPT !.marked = st.marked \cup {m},
                                                       !.imported = st.imported - 1],
                                            "error"))
    /\ UNCHANGED <<transactions, categories, accounts, config, now, tokenCall>>

\* syncEmailsHourly: markEmailAsRead with the run's token; a failure is
\* logged and nothing else.
SMark(r) ==
    /\ run[r].kind = "scheduled" /\ run[r].pc = "mark"
    /\ \E ok \in BOOLEAN :
         LET st == run[r]
             m == CurrentEmail(st)
         IN  /\ unread' = IF ok THEN unread \ {m} ELSE unread
             /\ SetRun(r, NextMessage([st EXCEPT !.marked = st.marked \cup {m}]))
    /\ UNCHANGED <<transactions, categories, accounts, config, now, tokenCall>>

----
\* Settings.handleFetchEmails: the linked domains of the signed-in user, a
\* fetch per domain (each asking for an access token first); a failing fetch
\* fails the whole sync.
IStart(r) ==
    /\ run[r].kind = "interactive" /\ run[r].pc = "idle"
    /\ \E answer \in RunEndpointAnswers, popup \in RunPopupAnswers, listOk \in BOOLEAN,
          lost \in SUBSET {m \in unread : Emails[m].uid = "u1"} :
         LET uid == "u1"
             st == [run[r] EXCEPT !.uid = uid,
                                  !.after = {q \in DOMAIN run : run[q].pc = "done"}]
             domains == LinkedDomains(accounts, uid)
             res == ClientGetGmailAccessToken(config[uid], now, answer, popup)
             emails == FetchedEmails(uid, domains, lost)
         IN  IF domains = {}
             THEN /\ UNCHANGED config
                  /\ SetRun(r, [st EXCEPT !.pc = "done"])
             ELSE /\ config' = [config EXCEPT ![uid] = res.config]
                  /\ SetRun(r, IF res.result = "throw" \/ ~listOk
                                THEN [st EXCEPT !.pc = "failed"]
                                ELSE IF emails = <<>> THEN [st EXCEPT !.pc = "done"]
                                ELSE [st EXCEPT !.token = res.token, !.emails = emails,
                                                !.listed = ListedMessages(uid, domains),
                                                !.idx = 1, !.pc = "parse"])
    /\ UNCHANGED <<transactions, categories, accounts, now, tokenCall, unread>>

\* addTransaction's addDoc, with the flags of the e-mail and the candidate.
IAdd(r) ==
    /\ run[r].kind = "interactive" /\ run[r].pc = "add"
    /\ \E ok \in BOOLEAN :
         LET st == run[r]
             m == CurrentEmail(st)
             t == NewTransaction(transactions, st.uid, st.parsed, st.account, m,
                                 CheckTransactionFlags(Emails[m], st.parsed))
         IN  IF ok
             THEN /\ transactions' = transactions \cup {t}
                  /\ SetRun(r, [st EXCEPT !.created = st.created \cup {m},
                                          !.pc = "recalcRead"])
             ELSE /\ UNCHANGED transactions
                  /\ SetRun(r, SkipMessage(st, "error"))
    /\ UNCHANGED <<categories, accounts, config, now, tokenCall, unread>>

\* addTransaction's recalculateAccountBalance, the query of the account's
\* transactions.
IRecalcRead(r) ==
    /\ run[r].kind = "interactive" /\ run[r].pc = "recalcRead"
    /\ \E ok \in BOOLEAN :
         LET st == run[r]
         IN  SetRun(r, IF ok
                       THEN [st EXCEPT !.sum = AccountBalanceSum(transactions, st.uid, st.account),
                                       !.pc = "recalcWrite"]
                       ELSE SkipMessage(st, "error"))
    /\ UNCHANGED <<transactions, categories, accounts, config, now, tokenCall, unread>>

\* addTransaction's recalculateAccountBalance, the write of the sum; with
\* it addTransaction returns and the message counts as imported.
IRecalcWrite(r) ==
    /\ run[r].kind = "interactive" /\ run[r].pc = "recalcWrite"
    /\ \E ok \in BOOLEAN :
         LET st == run[r]
             m == CurrentEmail(st)
         IN  IF ok
             THEN /\ accounts' = [accounts EXCEPT ![st.account].cleared_balance = st.sum]
                  /\ SetRun(r, [st EXCEPT !.imported = st.imported + 1, !.sum = 0,
                                          !.outcome[m] = "imported", !.pc = "mark"])
             ELSE /\ UNCHANGED accounts
                  /\ SetRun(r, SkipMessage([st EXCEPT !.sum = 0], "error"))
    /\ UNCHANGED <<transactions, categories, config, now, tokenCall, unread>>

\* Settings.handleFetchEmails: markEmailAsRead, which asks for an access
\* token and then clears the label; a failure is logged and nothing else.
IMark(r) ==
    /\ run[r].kind = "interactive" /\ run[r].pc = "mark"
    /\ \E answer \in RunEndpointAnswers, popup \in RunPopupAnswers, ok \in BOOLEAN :
         LET st == run[r]
             m == CurrentEmail(st)
             res == ClientGetGmailAccessToken(config[st.uid], now, answer, popup)
         IN  /\ config' = [config EXCEPT ![st.uid] = res.config]
             /\ unread' = IF res.result # "throw" /\ ok THEN unread \ {m} ELSE unread
             /\ SetRun(r, NextMessage([st EXCEPT !.marked = st.marked \cup {m}]))
    /\ UNCHANGED <<transactions, categories, accounts, now, tokenCall>>
----
ValidConfig == [exists |-> TRUE, refresh |-> "id", access |-> "t1", expiry |-> ServerExpiresIn]
ExpiredConfig == [exists |-> TRUE, refresh |-> "id", access |-> "t1", expiry |-> 0]
PopupOnlyConfig == [exists |-> TRUE, refresh |-> Empty, access |-> "t1", expiry |-> ServerExpiresIn]
RunKinds == {"scheduled", "interactive"}

ImportAccounts ==
    [a \in AccountIds |->
        IF a = "a1" THEN NewAccount("u1", 0, "chase.com")
        ELSE IF a = "a2" THEN NewAccount("u1", 0, None)
        ELSE IF a = "b1" THEN NewAccount("u2", 0, "boa.com")
        ELSE NewAccount("u3", 0, "chase.com")]

(***************************************************************************)
(* The import specification: two runs for the one user whose mailbox holds *)
(* two unread notifications, each run scheduled or interactive, their      *)
(* steps interleaved in every order.                                       *)
(***************************************************************************)
InitImport ==
    /\ transactions = {}
    /\ categories = [c \in CategoryIds |-> NewCategory]
    /\ accounts = ImportAccounts
    /\ config = [u \in Users |-> IF u = "u1" THEN ValidConfig ELSE NoConfig]
    /\ now = 0
    /\ tokenCall = NoTokenCall
    /\ unread = {"m1", "m2"}
    /\ \E k1 \in RunKinds, k2 \in RunKinds :
          run = [r \in Runs |-> IdleRun(IF r = "r1" THEN k1 ELSE k2)]

NextImport ==
    \/ \E r \in DOMAIN run : SStart(r)
    \/ \E r \in DOMAIN run : SToken(r)
    \/ \E r \in DOMAIN run : SFetch(r)
    \/ \E r \in DOMAIN run : SFinish(r)
    \/ \E r \in DOMAIN run : MatchAndParse(r)
    \/ \E r \in DOMAIN run : DedupQuery(r)
    \/ \E r \in DOMAIN run : SAdd(r)
    \/ \E r \in DOMAIN run : SMark(r)
    \/ \E r \in DOMAIN run : IStart(r)
    \/ \E r \in DOMAIN run : IAdd(r)
    \/ \E r \in DOMAIN run : IRecalcRead(r)
    \/ \E r \in DOMAIN run : IRecalcWrite(r)
    \/ \E r \in DOMAIN run : IMark(r)

SpecImport == InitImport /\ [][NextImport]_vars

(***************************************************************************)
(* The schedule specification: one scheduled run over three users whose    *)
(* token records differ.                                                   *)
(***************************************************************************)
InitSched ==
    /\ transactions = {}
    /\ categories = [c \in CategoryIds |-> NewCategory]
    /\ accounts = ImportAccounts
    /\ \E c1 \in {ValidConfig, ExpiredConfig}, c2 \in {ValidConfig, PopupOnlyConfig, NoConfig} :
          config = [u \in Users |-> IF u = "u1" THEN c1 ELSE IF u = "u2" THEN c2
                                    ELSE ValidConfig]
    /\ now = 0
    /\ tokenCall = NoTokenCall
    /\ unread = Msgs
    /\ run = [r \in {"r1"} |-> IdleRun("scheduled")]

NextSched ==
    \/ \E r \in DOMAIN run : SStart(r)
    \/ \E r \in DOMAIN run : SToken(r)
    \/ \E r \in DOMAIN run : SFetch(r)
    \/ \E r \in DOMAIN run : SFinish(r)
    \/ \E r \in DOMAIN run : MatchAndParse(r)
    \/ \E r \in DOMAIN run : DedupQuery(r)
    \/ \E r \in DOMAIN run : SAdd(r)
    \/ \E r \in DOMAIN run : SMark(r)

SpecSched == InitSched /\ [][NextSched]_vars

\* The scheduled run when every call it awaits returns or fails: the step
\* that follows the await is eventually taken.
SpecSchedFair == SpecSched /\ WF_vars(NextSched)
(***************************************************************************)
(* Import claims.  A run's observers record what it did: the users and     *)
(* messages it attempted in order, the outcome it counted for each         *)
(* message, the messages it persisted a transaction for and those it       *)
(* asked to be marked read, and the runs that were done when it started.   *)
(***************************************************************************)
IsPrefix(p, q) == Len(p) <= Len(q) /\ SubSeq(q, 1, Len(p)) = p
TxOf(m) == {t \in transactions : t.original_email_id = m}
SkipReasons == {"unmatched", "parse", "duplicate", "error"}
MessageLoop == {"parse", "dedup", "add", "recalcRead", "recalcWrite", "mark"}
PastDedup == {"add", "recalcRead", "recalcWrite", "mark"}
Ended(r) == run[r].pc \in {"done", "failed"}

\* C3 as stated: when run q starts after run p is done and fetches the same
\* messages, q at its end has created no transaction, every message p
\* imported is a duplicate skip of q, and exactly one
\* transaction carries its id.
C3_SecondRunAllDuplicates ==
    \A p \in DOMAIN run, q \in DOMAIN run :
        (p \in run[q].after /\ run[q].pc = "done" /\ run[q].emails = run[p].emails) =>
            /\ run[q].created = {}
            /\ \A m \in {x \in Msgs : run[p].outcome[x] = "imported"} :
                  run[q].outcome[m] = "duplicate" /\ Cardinality(TxOf(m)) = 1

\* C3 amended: when run q starts after run p is done, q creates no
\* transaction for a message p turned into a transaction: such a message is
\* never counted imported nor marked read by q, q never gets past the
\* duplicate query with it (it is skipped as a duplicate, or earlier as a
\* parse failure or an error), exactly one transaction carries its id, and no
\* message id is carried by two transactions.
C3_SecondRunCreatesNoDuplicate ==
    \A p \in DOMAIN run, q \in DOMAIN run :
        p \in run[q].after =>
            /\ \A m \in run[p].created :
                  /\ m \notin run[q].created
                  /\ m \notin run[q].marked
                  /\ run[q].outcome[m] \in {"none", "parse", "error", "duplicate"}
                  /\ run[q].pc \in PastDedup => CurrentEmail(run[q]) # m
                  /\ Cardinality(TxOf(m)) = 1
            /\ \A m \in Msgs : Cardinality(TxOf(m)) <= 1

C3_Witness ==
    \E p \in DOMAIN run, q \in DOMAIN run :
        /\ p \in run[q].after /\ run[q].pc = "done"
        /\ run[p].created = {"m1", "m2"}
        /\ run[q].attempts = <<"m1", "m2">>
        /\ run[q].outcome["m1"] = "duplicate" /\ run[q].outcome["m2"] = "duplicate"

\* C4: in every reachable state of two runs of the same user, however
\* interleaved, at most one transaction carries a given message id.
C4_AtMostOnePerMessage ==
    \A m \in Msgs : Cardinality(TxOf(m)) <= 1

\* C5: when a run is done (no other run having started), the
\* cleared_balance of the account of every transaction it imported is the
\* sum of the amounts of that account's transactions.
C5_BalanceAtDone ==
    \A r \in DOMAIN run :
        (run[r].pc = "done" /\ \A q \in DOMAIN run \ {r} : run[q].pc = "idle") =>
            \A t \in transactions :
                (t.original_email_id # None /\ run[r].outcome[t.original_email_id] = "imported") =>
                    accounts[t.account_id].cleared_balance =
                        AccountBalanceSum(transactions, t.uid, t.account_id)

\* C8: a run asks for a message to be marked read only after it persisted
\* a transaction for it; a message the run counted as skipped was not
\* asked to be marked read, got no transaction from the run and, no other
\* run having marked it, is still unread.
C8_MarkOnlyAfterPersist ==
    \A r \in DOMAIN run, m \in Msgs :
        /\ m \in run[r].marked => m \in run[r].created
        /\ run[r].outcome[m] \in SkipReasons =>
              /\ m \notin run[r].marked
              /\ m \notin run[r].created
              /\ (\A q \in DOMAIN run \ {r} : m \notin run[q].marked) => m \in unread

\* C9: in a scheduled run the users attempted so far are the enumerated
\* users in order, each once, with the users still to come making up the
\* rest; the run ends only with every enumerated user attempted (or with
\* none enumerated, the discovery having failed), and it never stops
\* before its end.
C9_EveryUserAttemptedOnce ==
    \A r \in DOMAIN run :
        run[r].kind = "scheduled" =>
            /\ run[r].tried \o run[r].users = run[r].enumerated
            /\ Cardinality(Range(run[r].enumerated)) = Len(run[r].enumerated)
            /\ run[r].pc = "done" => run[r].tried = run[r].enumerated
            /\ run[r].pc = "failed" => run[r].enumerated = <<>>
            /\ ~Ended(r) => ENABLED NextSched

C9_Witness ==
    \E r \in DOMAIN run :
        /\ run[r].pc = "done"
        /\ run[r].tried = <<"u1", "u2", "u3">>
        /\ run[r].failedUsers = {"u1", "u2"}
        /\ run[r].outcome["m4"] = "imported"

C11_CountsCoverListed ==
    \A r \in DOMAIN run :
        (run[r].pc \notin MessageLoop /\ run[r].emails # <<>>) =>
            run[r].imported + run[r].skipped = Cardinality(run[r].listed)

CandidateOf(t) == CHOOSE c \in Candidates : c.amount = t.amount

\* C12: every transaction an import persisted carries exactly the flags the
\* flag rules yield for its e-mail and its candidate; a candidate of low
\* confidence gives a transaction with a low_confidence flag.
C12_FlagsOfEngine ==
    \A t \in transactions :
        t.original_email_id # None =>
            /\ t.flags = CheckTransactionFlags(Emails[t.original_email_id], CandidateOf(t))
            /\ CandidateOf(t).confidence = "low" =>
                  \E i \in DOMAIN t.flags : t.flags[i].reason = "low_confidence"

(***************************************************************************)
(* Further ledger claims.                                                  *)
(***************************************************************************)
CategoryActivitySum(T, uid, c) == SumAmounts({t \in T : t.uid = uid /\ t.category_id = c})
IsUpdate == MutatedBefore # {} /\ MutatedAfter # {}

FlagAmounts == {0, 5, -5, 10, -10, -50000, 10000 * 1000, 10000 * 1000 + 1, -15000 * 1000}
FlagCandidates ==
    [ok : {TRUE}, date : {"2024-11-15"}, payee : {"STARBUCKS"}, amount : FlagAmounts,
     confidence : {"high", "medium", "low"}, category_id : {None, "food"}]

InitFlags ==
    /\ transactions = {}
    /\ categories = [c \in CategoryIds |-> NewCategory]
    /\ accounts = ImportAccounts
    /\ config = [u \in Users |-> IF u = "u1" THEN ValidConfig ELSE NoConfig]
    /\ now = 0
    /\ tokenCall = NoTokenCall
    /\ unread = {"m1", "m2"}
    /\ run = <<>>

\* processEmailTransaction for one fetched e-mail, nothing failing: the
\* account of the sender's domain, the candidate, its flags, addTransaction.
ProcessEmailTransactionFrom(candidates) ==
    \E m \in unread, parsed \in candidates :
        LET uid == Emails[m].uid
            account == FindAccountByEmailDomain(accounts, uid, Emails[m].from)
            flags == CheckTransactionFlags(Emails[m], parsed)
            t == NewTransaction(transactions, uid, parsed, account, m, flags)
        IN  /\ account # None
            /\ ~IsDuplicate(transactions, uid, m)
            /\ Store(AddTransactionResult(transactions, categories, accounts, t))
            /\ UNCHANGED <<config, now, tokenCall, unread, run>>

ProcessEmailTransaction == ProcessEmailTransactionFrom(FlagCandidates)

NextFlags == ProcessEmailTransaction

SpecFlags == InitFlags /\ [][NextFlags]_vars

HasFlag(t, reason) == \E i \in DOMAIN t.flags : t.flags[i].reason = reason

\* C15: for every numeric candidate amount, zero and the boundary values
\* included, the transaction carries an unusual_amount flag if and only if
\* abs(amount) > 10000 or abs(amount) < 0.01.
C15_UnusualAmountIff ==
    \A t \in transactions :
        HasFlag(t, "unusual_amount") <=>
            (Abs(t.amount) > UnusualHigh \/ Abs(t.amount) < UnusualLow)

(***************************************************************************)
(* The extraction specification: the scheduled loop body for one message   *)
(* (match, parseEmailWithGemini over what the model may answer, duplicate  *)
(* check, transactionsRef.add), nothing but the parse failing.  Here an    *)
(* amount is a JavaScript value: a number (in thousandths), NaN, null, a   *)
(* string or undefined; `run` keeps, per message, the candidate the        *)
(* extractor returned.                                                     *)
(***************************************************************************)
Num(v) == [kind |-> "number", value |-> v, text |-> Empty]
Str(text) == [kind |-> "string", value |-> 0, text |-> text]
NaN == [kind |-> "NaN", value |-> 0, text |-> Empty]
NullAmount == [kind |-> "null", value |-> 0, text |-> Empty]
UndefinedAmount == [kind |-> "undefined", value |-> 0, text |-> Empty]

\* parseFloat: the longest numeric prefix, NaN when there is none.
ParseFloat(text) ==
    CASE text = "-45.67" -> Num(-45670)
      [] text = "12abc" -> Num(12000)
      [] OTHER -> NaN

RawAmounts ==
    {Num(-45670), Num(45670), Num(0), Str("-45.67"), Str("12abc"), Str("abc"), Str(Empty),
     NullAmount, UndefinedAmount}
TransactionTypes == {"purchase", "deposit", "withdrawal", "transfer", "fee", "unknown"}

\* What the model answers: text that is no JSON, or an object whose fields
\* may be missing (Undefined), empty or null.
ModelOutputs ==
    [json : {TRUE}, date : {"2024-11-15", Empty, Undefined},
     payee : {"STARBUCKS", None, Undefined}, amount : RawAmounts,
     transactionType : TransactionTypes, confidence : {"high"}]
    \cup {[json |-> FALSE, date |-> Undefined, payee |-> Undefined,
            amount |-> UndefinedAmount, transactionType |-> "unknown",
            confidence |-> "high"]}

NoExtract == [ok |-> FALSE]
JsFalsy(x) == x \in {Empty, None, Undefined}

\* parseEmailWithGemini from JSON.parse on: null when the text is no JSON
\* (the catch), when date or payee is falsy or amount is undefined; a string
\* amount goes through parseFloat; everything else is returned as it is.
ParseEmailWithGemini(out) ==
    IF ~out.json THEN NoExtract
    ELSE IF JsFalsy(out.date) \/ JsFalsy(out.payee) \/ out.amount.kind = "undefined"
         THEN NoExtract
    ELSE [ok |-> TRUE, date |-> out.date, payee |-> out.payee,
          amount |-> IF out.amount.kind = "string" THEN ParseFloat(out.amount.text)
                     ELSE out.amount,
          transactionType |-> out.transactionType, confidence |-> out.confidence,
          category_id |-> None]

InitExtract ==
    /\ transactions = {}
    /\ categories = [c \in CategoryIds |-> NewCategory]
    /\ accounts = ImportAccounts
    /\ config = [u \in Users |-> IF u = "u1" THEN ValidConfig ELSE NoConfig]
    /\ now = 0
    /\ tokenCall = NoTokenCall
    /\ unread = {"m1", "m2"}
    /\ run = [m \in unread |-> NoExtract]

\* The loop body of syncEmailsHourly for one unread message not yet tried.
SyncOneEmail ==
    \E m \in unread, out \in ModelOutputs :
        LET uid == Emails[m].uid
            account == FindAccountByEmailDomain(accounts, uid, Emails[m].from)
            parsed == ParseEmailWithGemini(out)
        IN  /\ account # None
            /\ parsed.ok
            /\ ~IsDuplicate(transactions, uid, m)
            /\ transactions' = transactions \cup
                    {NewTransaction(transactions, uid, parsed, account, m, NoFlags)}
            /\ run' = [run EXCEPT ![m] = parsed]
            /\ UNCHANGED <<categories, accounts, config, now, tokenCall, unread>>

NextExtract == SyncOneEmail

SpecExtract == InitExtract /\ [][NextExtract]_vars

\* C16: no import persists a transaction whose candidate lacked date or
\* payee or whose amount is not a number: the extractor returns none for a
\* model output without date, payee or amount, or with an amount that is
\* neither a number nor a string parsing to one.
C16_NoNonNumericPersisted ==
    \A t \in transactions :
        /\ ~JsFalsy(t.date)
        /\ ~JsFalsy(t.payee)
        /\ t.amount.kind = "number"

\* C17: every transaction an import persisted has an amount whose sign
\* agrees with the transactionType of its candidate: not positive for
\* purchase, withdrawal and fee, not negative for deposit.
C17_SignAgreesWithType ==
    \A t \in transactions :
        LET c == run[t.original_email_id] IN
        (c.ok /\ t.amount.kind = "number") =>
            /\ c.transactionType \in {"purchase", "withdrawal", "fee"} => t.amount.value <= 0
            /\ c.transactionType = "deposit" => t.amount.value >= 0

(***************************************************************************)
(* The matching specification: findAccountByEmailDomain over sender        *)
(* addresses and linked domains written out as sequences of characters,    *)
(* so that the regular expression and the lower-casing are computed.       *)
(* `run` keeps the last call: the sender and the account returned.         *)
(***************************************************************************)
LowerLetters == {"a", "b", "c", "e", "k", "l", "m", "n", "o", "p", "r", "s", "t", "u", "x"}
UpperLetters == {"A", "C", "E", "M", "O", "X"}
Digits == {"1"}
IsLetter(c) == c \in LowerLetters \cup UpperLetters
IsDomainChar(c) == IsLetter(c) \/ c \in Digits \/ c \in {".", "-"}

LowerChar(c) ==
    CASE c = "A" -> "a" [] c = "C" -> "c" [] c = "E" -> "e" [] c = "M" -> "m"
      [] c = "O" -> "o" [] c = "X" -> "x" [] OTHER -> c
ToLowerCase(str) == [i \in DOMAIN str |-> LowerChar(str[i])]

Max(S) == CHOOSE x \in S : \A y \in S : y <= x
Min(S) == CHOOSE x \in S : \A y \in S : x <= y

\* The end of the longest run of [a-zA-Z0-9.-] that starts after position i.
RunEnd(a, i) ==
    Max({j \in i..Len(a) : \A k \in (i + 1)..j : IsDomainChar(a[k])})
\* The dots after position i that close a non-empty [a-zA-Z0-9.-]+ and are
\* followed by two letters.
ClosingDots(a, i) ==
    {k \in (i + 2)..RunEnd(a, i) :
        /\ a[k] = "."
        /\ k + 2 <= Len(a)
        /\ IsLetter(a[k + 1]) /\ IsLetter(a[k + 2])}
\* The end of the letters that follow the dot at k.
LettersEnd(a, k) ==
    Max({e \in (k + 2)..Len(a) : \A x \in (k + 1)..e : IsLetter(a[x])})

\* extractEmailDomain: the first match of /@([a-zA-Z0-9.-]+\.[a-zA-Z]{2,})/,
\* its group lower-cased; the empty string when nothing matches.
ExtractEmailDomain(a) ==
    LET ats == {i \in DOMAIN a : a[i] = "@" /\ ClosingDots(a, i) # {}}
    IN  IF ats = {} THEN <<>>
        ELSE LET i == Min(ats)
                 k == Max(ClosingDots(a, i))
             IN  ToLowerCase(SubSeq(a, i + 1, LettersEnd(a, k)))

IsSuffix(p, q) == Len(p) <= Len(q) /\ SubSeq(q, Len(q) - Len(p) + 1, Len(q)) = p

\* A match that accepts every sender whose domain ends with the linked one.
MatchAccountBySuffix(A, uid, senderEmail) ==
    LET domain == ExtractEmailDomain(senderEmail)
        hits == SelectSeq(UserAccounts(A, uid),
                          LAMBDA x : A[x].email_domain # <<>>
                                     /\ IsSuffix(ToLowerCase(A[x].email_domain), domain))
    IN  IF domain = <<>> \/ hits = <<>> THEN None ELSE Head(hits)

\* findAccountByEmailDomain on the sender's address: null when no domain is
\* extracted, else the first account with a non-empty email_domain whose
\* lower case equals the lower case of the domain, null when there is none.
MatchAccount(A, uid, senderEmail) ==
    LET domain == ExtractEmailDomain(senderEmail)
        hits == SelectSeq(UserAccounts(A, uid),
                          LAMBDA x : A[x].email_domain # <<>>
                                     /\ ToLowerCase(A[x].email_domain) = ToLowerCase(domain))
    IN  IF domain = <<>> \/ hits = <<>> THEN None ELSE Head(hits)

\* Linked domains: none, ex.co, Ex.CO, b.co.
NoDomain == <<>>
ExCo == <<"e", "x", ".", "c", "o">>
ExCoMixed == <<"E", "x", ".", "C", "O">>
BCo == <<"b", ".", "c", "o">>
LinkedDomainChoices == {NoDomain, ExCo, ExCoMixed, BCo}

\* Sender addresses, each with the entire domain it was sent from, in lower
\* case (empty when the address has none).
Senders ==
    {[address |-> <<"n", "@", "e", "x", ".", "c", "o">>, domain |-> ExCo],
     [address |-> <<"N", " ", "<", "n", "@", "e", "x", ".", "c", "o", ">">>, domain |-> ExCo],
     [address |-> <<"n", "@", "E", "X", ".", "c", "o">>, domain |-> ExCo],
     [address |-> <<"a", "@", "n", "o", "t", "e", "x", ".", "c", "o">>,
      domain |-> <<"n", "o", "t", "e", "x", ".", "c", "o">>],
     [address |-> <<"a", "@", "s", "u", "b", ".", "e", "x", ".", "c", "o">>,
      domain |-> <<"s", "u", "b", ".", "e", "x", ".", "c", "o">>],
     [address |-> <<"a", "@", "e", "x", ".", "c", "o", ".", "u", "k">>,
      domain |-> <<"e", "x", ".", "c", "o", ".", "u", "k">>],
     [address |-> <<"a", "@", "b", "-", "1", ".", "c", "o">>,
      domain |-> <<"b", "-", "1", ".", "c", "o">>],
     [address |-> <<"n", "o", "b", "o", "n", "e">>, domain |-> <<>>]}

NoMatchCall == [called |-> FALSE, sender |-> <<>>, domain |-> <<>>, account |-> None]

InitMatch ==
    /\ transactions = {}
    /\ categories = [c \in CategoryIds |-> NewCategory]
    /\ \E d1 \in LinkedDomainChoices, d2 \in LinkedDomainChoices :
          accounts = [a \in AccountIds |->
                        IF a = "a1" THEN NewAccount("u1", 0, d1)
                        ELSE IF a = "a2" THEN NewAccount("u1", 0, d2)
                        ELSE IF a = "b1" THEN NewAccount("u2", 0, ExCo)
                        ELSE NewAccount("u3", 0, NoDomain)]
    /\ config = [u \in Users |-> NoConfig]
    /\ now = 0
    /\ tokenCall = NoTokenCall
    /\ unread = {}
    /\ run = NoMatchCall

\* One call of findAccountByEmailDomain with the accounts of u1.
MatchCall ==
    \E s \in Senders :
        /\ run' = [called |-> TRUE, sender |-> s.address, domain |-> s.domain,
                   account |-> MatchAccount(accounts, "u1", s.address)]
        /\ UNCHANGED <<transactions, categories, accounts, config, now, tokenCall, unread>>

NextMatch == MatchCall

SpecMatch == InitMatch /\ [][NextMatch]_vars

\* The accounts of u1, in enumeration order, whose linked domain is, case
\* apart, the whole of the domain d.
ExactAccounts(d) ==
    SelectSeq(UserAccounts(accounts, "u1"),
              LAMBDA x : accounts[x].email_domain # <<>>
                         /\ ToLowerCase(accounts[x].email_domain) = d)

\* C18: the match returns the first account, in enumeration order, whose
\* email_domain equals case-insensitively the entire domain of the sender
\* address, and null when there is none: a sender domain that only ends
\* with or contains a linked domain matches no account.
C18_ExactDomainMatch ==
    run.called =>
        /\ run.account = IF run.domain = <<>> \/ ExactAccounts(run.domain) = <<>>
                         THEN None ELSE Head(ExactAccounts(run.domain))
        /\ run.account # None =>
              ToLowerCase(accounts[run.account].email_domain) = run.domain

\* C18 witness: the sender a@notex.co finds no account although both
\* accounts are linked to ex.co, one in mixed case.
C18_Witness ==
    /\ run.called
    /\ run.domain = <<"n", "o", "t", "e", "x", ".", "c", "o">>
    /\ accounts["a1"].email_domain = ExCoMixed
    /\ accounts["a2"].email_domain = ExCo
    /\ run.account = None

\* C19: every transaction an import run creates has status uncleared, the
\* account matched to the sender's domain as account_id, the id of the
\* source message as original_email_id, and the date, payee and amount of
\* the candidate the run parsed for that message.
C19_CreatedFields ==
    [][\A t \in transactions' \ transactions :
          \E r \in DOMAIN run :
              /\ run[r].pc = "add" /\ run'[r].pc # "add"
              /\ t.original_email_id = CurrentEmail(run[r])
              /\ t.uid = run[r].uid
              /\ t.status = "uncleared"
              /\ t.account_id = FindAccountByEmailDomain(accounts, t.uid,
                                                         Emails[t.original_email_id].from)
              /\ t.account_id # None
              /\ t.date = run[r].parsed.date
              /\ t.payee = run[r].parsed.payee
              /\ t.amount = run[r].parsed.amount]_vars

\* C19 witness: a scheduled and an interactive run have each created a
\* transaction, one from each candidate.
C19_Witness ==
    \E r \in DOMAIN run, q \in DOMAIN run :
        /\ run[r].kind = "scheduled" /\ run[q].kind = "interactive"
        /\ run[r].created = {"m1"} /\ run[q].created = {"m2"}
        /\ \E t \in TxOf("m1"), o \in TxOf("m2") :
              /\ t.payee = "STARBUCKS" /\ t.amount = -45670 /\ t.account_id = "a1"
              /\ o.payee = "PAYROLL" /\ o.amount = 30000 /\ o.status = "uncleared"

\* C20: when a run's markRead for a message fails (the message keeps its
\* unread label), the transaction persisted for it stays stored, the
\* message stays counted as imported and is not counted as skipped, and the
\* run goes on to the next message or, after the last, to the end of the
\* loop.
C20_MarkFailureIsHarmless ==
    [][\A r \in DOMAIN run :
          (run[r].pc = "mark" /\ run'[r].pc # "mark"
           /\ CurrentEmail(run[r]) \in unread /\ unread' = unread) =>
              LET m == CurrentEmail(run[r]) IN
              /\ transactions' = transactions
              /\ \E t \in transactions' : t.original_email_id = m
              /\ run'[r].outcome[m] = "imported"
              /\ run'[r].imported = run[r].imported
              /\ run'[r].skipped = run[r].skipped
              /\ run'[r].idx = run[r].idx + 1
              /\ run'[r].pc = IF run[r].idx < Len(run[r].emails) THEN "parse"
                              ELSE IF run[r].kind = "scheduled" THEN "token" ELSE "done"]_vars

\* C20 witness: a run is done, its markRead for m1 failed (m1 is still
\* unread and no run removed the label), m1 is counted as imported with
\* its transaction stored, and m2 was attempted after it.
C20_Witness ==
    \E r \in DOMAIN run :
        /\ run[r].pc = "done"
        /\ "m1" \in run[r].marked /\ "m1" \in unread
        /\ run[r].outcome["m1"] = "imported" /\ TxOf("m1") # {}
        /\ run[r].attempts = <<"m1", "m2">>
        /\ run[r].imported + run[r].skipped = 2

\* C21: a scheduled run fails (syncEmailsHourly rethrows) only at its start,
\* on the configuration lookup or the discovery query: the step into the
\* failed state is taken from the idle state, and a failed run has attempted
\* no user and no message; whatever fails for a user or a message, the run
\* does not fail.
C21_FailsOnlyAtStart ==
    [][\A r \in DOMAIN run :
          (run'[r].pc = "failed" /\ run[r].pc # "failed") =>
              /\ run[r].pc = "idle"
              /\ run'[r].tried = <<>> /\ run'[r].attempts = <<>>
              /\ run'[r].failedUsers = {}
              /\ \A m \in Msgs : run'[r].outcome[m] = "none"]_vars

\* C21 witness: a run is done although the token of one user failed and a
\* message of another user ended in the catch block of the message loop.
C21_Witness ==
    \E r \in DOMAIN run :
        /\ run[r].pc = "done"
        /\ "u1" \in run[r].failedUsers
        /\ \E m \in Msgs : run[r].outcome[m] = "error"

\* C28 as stated: a run q that started after run p was done and attempts a
\* message p imported and failed to mark read skips it as a duplicate and
\* leaves it unread.
C28_LaterRunSkipsAsDuplicate ==
    \A p \in DOMAIN run, q \in DOMAIN run :
        (p \in run[q].after /\ run[q].pc = "done") =>
            \A m \in run[p].created \cap run[p].marked :
                (run[p].outcome[m] = "imported" /\ m \in Range(run[q].attempts)) =>
                    /\ run[q].outcome[m] = "duplicate"
                    /\ m \notin run[q].marked
                    /\ m \in unread

\* C28 amended: a message for which run p created a transaction and which
\* is unread (p's markRead failed) stays unread in every step taken once a
\* run q has started after p was done: q does not ask for it to be marked
\* read and counts it, when it attempts it, as skipped (as a duplicate, or
\* earlier as a parse failure or an error).
C28_NeverMarkedByLaterRun ==
    [][\A p \in DOMAIN run, q \in DOMAIN run :
          p \in run[q].after =>
              \A m \in run[p].created \cap unread :
                  /\ m \in unread'
                  /\ m \notin run'[q].marked
                  /\ run'[q].outcome[m] \in {"none", "parse", "error", "duplicate"}]_vars

\* C28 witness: p imported m1 and its markRead failed; q, started after p
\* was done, has attempted m1, skipped it as a duplicate and is done, and m1
\* is still unread.
C28_Witness ==
    \E p \in DOMAIN run, q \in DOMAIN run :
        /\ p \in run[q].after /\ run[q].pc = "done"
        /\ "m1" \in run[p].created /\ "m1" \in run[p].marked
        /\ "m1" \in Range(run[q].attempts)
        /\ run[q].outcome["m1"] = "duplicate"
        /\ "m1" \notin run[q].marked
        /\ "m1" \in unread

SchedRuns == {"r1"}

\* C29: every awaited call returning or failing, a scheduled run whose
\* discovery has answered eventually reaches Done, with every enumerated
\* user attempted and every message fetched for the last user attempted.
C29_StartedRunReachesDone ==
    \A r \in SchedRuns :
        (run[r].pc \notin {"idle", "failed"}) ~>
            (/\ run[r].pc = "done"
             /\ run[r].tried = run[r].enumerated
             /\ run[r].attempts = run[r].emails)

\* C29 witness: the run is done after the processing of one user failed, a
\* message ended in a parse failure, another in an error and a third
\* was imported.
C29_Witness ==
    \E r \in SchedRuns :
        /\ run[r].pc = "done"
        /\ run[r].failedUsers = {"u2"}
        /\ run[r].outcome["m1"] = "parse"
        /\ run[r].outcome["m2"] = "error"
        /\ run[r].outcome["m4"] = "imported"

(***************************************************************************)
(* The domain specification: the two domain extractors (extractEmailDomain *)
(* of the import, extractDomain of the sender discovery) applied to sender *)
(* addresses in the forms a From header takes.  `run` keeps the address    *)
(* and what the extractor called on it returned.                           *)
(***************************************************************************)
IsSpace(c) == c = " "

\* String.prototype.trim: without the white space at both ends.
Trim(str) ==
    LET inked == {i \in DOMAIN str : ~IsSpace(str[i])}
    IN  IF inked = {} THEN <<>> ELSE SubSeq(str, Min(inked), Max(inked))

DomainResult(isNull, text) == [isNull |-> isNull, text |-> text]

\* gmailService extractDomain: the first match of /@([^>]+)/, its group
\* trimmed and lower-cased; null when nothing matches.
ExtractDomain(a) ==
    LET ats == {i \in DOMAIN a : a[i] = "@" /\ i + 1 <= Len(a) /\ a[i + 1] # ">"}
    IN  IF ats = {} THEN DomainResult(TRUE, <<>>)
        ELSE LET i == Min(ats)
                 e == Max({j \in (i + 1)..Len(a) : \A k \in (i + 1)..j : a[k] # ">"})
             IN  DomainResult(FALSE, ToLowerCase(Trim(SubSeq(a, i + 1, e))))

LocalParts == {<<"a", "l", "e", "r", "t", "s">>, <<"n", "o">>, <<"b", "o", "t">>}
SenderDomains ==
    {<<"E", "x", "a", "m", "p", "l", "e", ".", "C", "O", "M">>,
     <<"e", "x", ".", "c", "o">>,
     <<"s", "u", "b", ".", "e", "x", ".", "c", "o">>,
     <<"b", "-", "1", ".", "c", "o">>,
     <<"e", "x", ".", "c", "o", ".", "u", "k">>}
DisplayName == <<"A", "l", "e", "r", "t", "s">>
AddressForms == {"bare", "angle", "named", "comment"}

\* addr, <addr>, Name <addr>, addr (Name).
FormatAddress(form, local, domain) ==
    LET addr == local \o <<"@">> \o domain
    IN  CASE form = "bare" -> addr
          [] form = "angle" -> <<"<">> \o addr \o <<">">>
          [] form = "named" -> DisplayName \o <<" ", "<">> \o addr \o <<">">>
          [] form = "comment" -> addr \o <<" ", "(">> \o DisplayName \o <<")">>

SenderAddresses ==
    {FormatAddress(f, l, d) : f \in AddressForms, l \in LocalParts, d \in SenderDomains}

NoDomainCall(a) == [called |-> FALSE, impl |-> "none", address |-> a,
                    result |-> DomainResult(TRUE, <<>>)]

InitDomain ==
    /\ transactions = {}
    /\ categories = [c \in CategoryIds |-> NewCategory]
    /\ accounts = ImportAccounts
    /\ config = [u \in Users |-> NoConfig]
    /\ now = 0
    /\ tokenCall = NoTokenCall
    /\ unread = {}
    /\ \E a \in SenderAddresses : run = NoDomainCall(a)

\* extractEmailDomain on the From header of a fetched message.
ExtractEmailDomainCall ==
    /\ run' = [run EXCEPT !.called = TRUE, !.impl = "extractEmailDomain",
                          !.result = DomainResult(FALSE, ExtractEmailDomain(run.address))]
    /\ UNCHANGED <<transactions, categories, accounts, config, now, tokenCall, unread>>

\* extractDomain on the From header of a recent message.
ExtractDomainCall ==
    /\ run' = [run EXCEPT !.called = TRUE, !.impl = "extractDomain",
                          !.result = ExtractDomain(run.address)]
    /\ UNCHANGED <<transactions, categories, accounts, config, now, tokenCall, unread>>

NextDomain == ExtractEmailDomainCall \/ ExtractDomainCall

SpecDomain == InitDomain /\ [][NextDomain]_vars

\* The run of domain characters that follows the first @ of the address.
DomainRun(a) ==
    LET i == Min({k \in DOMAIN a : a[k] = "@"})
    IN  SubSeq(a, i + 1, RunEnd(a, i))

\* C22: for every address form (bare, in angle brackets with or without a
\* name, followed by a comment) the extractor returns the lower-cased run of
\* domain characters that follows the @ of the address, stopping at the
\* first character that is none.
C22_DomainIsLowerCasedRun ==
    run.called =>
        run.result = DomainResult(FALSE, ToLowerCase(DomainRun(run.address)))

(***************************************************************************)
(* The session specification: two sessions of one user calling the ledger  *)
(* service (addTransaction, deleteTransaction, moveMoney), each call taken  *)
(* await by await, so that the reads and writes of the two sessions         *)
(* interleave and any of them may fail, the exception ending the call.      *)
(* `run` keeps, per session, the locals of the call in progress.            *)
(***************************************************************************)
Sessions == {"s1", "s2"}
MaxCalls == 2           \* calls a session makes
StepUser == "u1"
StepAccount == "a1"
StepCategories == {"food", None}
Resting == {"idle", "done", "failed"}

IdleSession ==
    [pc |-> "idle", cat |-> None, acc |-> None, id |-> 0, sum |-> 0, assigned |-> 0,
     from |-> None, to |-> None, fromDoc |-> NoCategory, toDoc |-> NoCategory,
     \* observers of the session
     calls |-> 0, clean |-> TRUE]

\* The end of a call: its locals are gone.
EndCall(st, pc) ==
    [IdleSession EXCEPT !.pc = pc, !.calls = st.calls,
                        !.clean = st.clean /\ pc = "done"]

\* A rejected promise: the exception leaves the call.
Throw(st) == EndCall(st, "failed")

\* What follows the category recalculation: the account's, when the
\* transaction has an account.
AfterCategory(st) ==
    IF st.acc # None THEN [st EXCEPT !.pc = "accSum"] ELSE EndCall(st, "done")

\* What follows the write or the removal of the transaction document.
AfterDocument(st) ==
    IF st.cat # None THEN [st EXCEPT !.pc = "catSum"] ELSE AfterCategory(st)

InitSteps ==
    /\ transactions = {}
    /\ categories = [c \in CategoryIds |-> NewCategory]
    /\ accounts = ImportAccounts
    /\ config = [u \in Users |-> NoConfig]
    /\ now = 0
    /\ tokenCall = NoTokenCall
    /\ unread = {}
    /\ run = [s \in Sessions |-> IdleSession]

\* addTransaction of a manual transaction (no original_email_id, so no
\* duplicate query): addDoc.
AddDoc(s) ==
    /\ run[s].pc \in Resting /\ run[s].calls < MaxCalls
    /\ \E amount \in Amounts, cat \in StepCategories, ok \in BOOLEAN :
         LET t == [id |-> NewId(transactions), uid |-> StepUser, amount |-> amount,
                   category_id |-> cat, account_id |-> StepAccount, status |-> "uncleared",
                   original_email_id |-> None, flags |-> NoFlags]
             st == [run[s] EXCEPT !.calls = run[s].calls + 1,
                                  !.cat = cat, !.acc = StepAccount]
         IN  IF ok
             THEN /\ transactions' = transactions \cup {t}
                  /\ SetRun(s, AfterDocument(st))
             ELSE /\ UNCHANGED transactions
                  /\ SetRun(s, Throw(st))
    /\ UNCHANGED <<categories, accounts, config, now, tokenCall, unread>>

\* deleteTransaction: the query for the transaction, whose category and
\* account are kept when it is found.
DeleteGet(s) ==
    /\ run[s].pc \in Resting /\ run[s].calls < MaxCalls
    /\ \E old \in transactions, ok \in BOOLEAN :
         LET st == [run[s] EXCEPT !.calls = run[s].calls + 1,
                                  !.cat = old.category_id, !.acc = old.account_id,
                                  !.id = old.id]
         IN  SetRun(s, IF ok THEN [st EXCEPT !.pc = "deleteDoc"] ELSE Throw(st))
    /\ UNCHANGED <<transactions, categories, accounts, config, now, tokenCall, unread>>

\* deleteTransaction: deleteDoc.
DeleteDoc(s) ==
    /\ run[s].pc = "deleteDoc"
    /\ \E ok \in BOOLEAN :
         IF ok
         THEN /\ transactions' = {t \in transactions : t.id # run[s].id}
              /\ SetRun(s, AfterDocument(run[s]))
         ELSE /\ UNCHANGED transactions
              /\ SetRun(s, Throw(run[s]))
    /\ UNCHANGED <<categories, accounts, config, now, tokenCall, unread>>

\* recalculateCategoryActivity: the query of the category's transactions.
CategorySum(s) ==
    /\ run[s].pc = "catSum"
    /\ \E ok \in BOOLEAN :
         SetRun(s, IF ok
                   THEN [run[s] EXCEPT !.sum = CategoryActivitySum(transactions, StepUser,
                                                                   run[s].cat),
                                       !.pc = "catGet"]
                   ELSE Throw(run[s]))
    /\ UNCHANGED <<transactions, categories, accounts, config, now, tokenCall, unread>>

\* recalculateCategoryActivity: the query of the category document.
CategoryGet(s) ==
    /\ run[s].pc = "catGet"
    /\ \E ok \in BOOLEAN :
         LET st == run[s]
         IN  SetRun(s, IF ~ok THEN Throw(st)
                       ELSE IF ~categories[st.cat].exists THEN AfterCategory(st)
                       ELSE [st EXCEPT !.assigned = categories[st.cat].assigned,
                                       !.pc = "catWrite"])
    /\ UNCHANGED <<transactions, categories, accounts, config, now, tokenCall, unread>>

\* recalculateCategoryActivity: updateDoc of activity and available.
CategoryWrite(s) ==
    /\ run[s].pc = "catWrite"
    /\ \E ok \in BOOLEAN :
         LET st == run[s]
         IN  IF ok
             THEN /\ categories' = [categories EXCEPT
                                       ![st.cat].activity = st.sum,
                                       ![st.cat].available = st.assigned - st.sum]
                  /\ SetRun(s, AfterCategory([st EXCEPT !.sum = 0, !.assigned = 0]))
             ELSE /\ UNCHANGED categories
                  /\ SetRun(s, Throw(st))
    /\ UNCHANGED <<transactions, accounts, config, now, tokenCall, unread>>

\* recalculateAccountBalance: the query of the account's transactions.
AccountSum(s) ==
    /\ run[s].pc = "accSum"
    /\ \E ok \in BOOLEAN :
         SetRun(s, IF ok
                   THEN [run[s] EXCEPT !.sum = AccountBalanceSum(transactions, StepUser,
                                                                 run[s].acc),
                                       !.pc = "accWrite"]
                   ELSE Throw(run[s]))
    /\ UNCHANGED <<transactions, categories, accounts, config, now, tokenCall, unread>>

\* recalculateAccountBalance: updateDoc of cleared_balance.
AccountWrite(s) ==
    /\ run[s].pc = "accWrite"
    /\ \E ok \in BOOLEAN :
         LET st == run[s]
         IN  IF ok
             THEN /\ accounts' = [accounts EXCEPT ![st.acc].cleared_balance = st.sum]
                  /\ SetRun(s, EndCall(st, "done"))
             ELSE /\ UNCHANGED accounts
                  /\ SetRun(s, Throw(st))
    /\ UNCHANGED <<transactions, categories, config, now, tokenCall, unread>>

\* MoveMoneyModal.handleSubmit, moveMoney: the query of the from category.
MoveGetFrom(s) ==
    /\ run[s].pc \in Resting /\ run[s].calls < MaxCalls
    /\ \E from \in CategoryIds, to \in CategoryIds, ok \in BOOLEAN :
         LET st == [run[s] EXCEPT !.calls = run[s].calls + 1,
                                  !.from = from, !.to = to]
         IN  /\ from # to
             /\ SetRun(s, IF ok THEN [st EXCEPT !.fromDoc = categories[from],
                                                !.pc = "moveGetTo"]
                           ELSE Throw(st))
    /\ UNCHANGED <<transactions, categories, accounts, config, now, tokenCall, unread>>

\* moveMoney: the query of the to category; a missing category throws.
MoveGetTo(s) ==
    /\ run[s].pc = "moveGetTo"
    /\ \E ok \in BOOLEAN :
         LET st == run[s]
         IN  SetRun(s, IF ~ok \/ ~st.fromDoc.exists \/ ~categories[st.to].exists
                       THEN Throw(st)
                       ELSE [st EXCEPT !.toDoc = categories[st.to], !.pc = "moveWriteFrom"])
    /\ UNCHANGED <<transactions, categories, accounts, config, now, tokenCall, unread>>

\* moveMoney: updateDoc of the from category.
MoveWriteFrom(s) ==
    /\ run[s].pc = "moveWriteFrom"
    /\ \E ok \in BOOLEAN :
         LET st == run[s]
         IN  IF ok
             THEN /\ categories' = [categories EXCEPT
                        ![st.from].assigned = st.fromDoc.assigned - MoveAmount,
                        ![st.from].available =
                              st.fromDoc.assigned - MoveAmount - st.fromDoc.activity]
                  /\ SetRun(s, [st EXCEPT !.pc = "moveWriteTo"])
             ELSE /\ UNCHANGED categories
                  /\ SetRun(s, Throw(st))
    /\ UNCHANGED <<transactions, accounts, config, now, tokenCall, unread>>

\* moveMoney: updateDoc of the to category.
MoveWriteTo(s) ==
    /\ run[s].pc = "moveWriteTo"
    /\ \E ok \in BOOLEAN :
         LET st == run[s]
         IN  IF ok
             THEN /\ categories' = [categories EXCEPT
                        ![st.to].assigned = st.toDoc.assigned + MoveAmount,
                        ![st.to].available =
                              st.toDoc.assigned + MoveAmount - st.toDoc.activity]
                  /\ SetRun(s, EndCall(st, "done"))
             ELSE /\ UNCHANGED categories
                  /\ SetRun(s, Throw(st))
    /\ UNCHANGED <<transactions, accounts, config, now, tokenCall, unread>>

NextSteps ==
    \/ \E s \in DOMAIN run : AddDoc(s)
    \/ \E s \in DOMAIN run : DeleteGet(s)
    \/ \E s \in DOMAIN run : DeleteDoc(s)
    \/ \E s \in DOMAIN run : CategorySum(s)
    \/ \E s \in DOMAIN run : CategoryGet(s)
    \/ \E s \in DOMAIN run : CategoryWrite(s)
    \/ \E s \in DOMAIN run : AccountSum(s)
    \/ \E s \in DOMAIN run : AccountWrite(s)
    \/ \E s \in DOMAIN run : MoveGetFrom(s)
    \/ \E s \in DOMAIN run : MoveGetTo(s)
    \/ \E s \in DOMAIN run : MoveWriteFrom(s)
    \/ \E s \in DOMAIN run : MoveWriteTo(s)

SpecSteps == InitSteps /\ [][NextSteps]_vars

(***************************************************************************)
(* Session claims.                                                         *)
(***************************************************************************)
AllCompleted == \A s \in DOMAIN run : run[s].pc \in {"idle", "done"} /\ run[s].clean
AggregatesMatch ==
    /\ accounts[StepAccount].cleared_balance =
          AccountBalanceSum(transactions, StepUser, StepAccount)
    /\ \A c \in CategoryIds :
          categories[c].activity = CategoryActivitySum(transactions, StepUser, c)

\* C23: whenever the calls of the two sessions have all completed, none
\* having failed, the account's cleared_balance is the sum of the amounts of
\* its transactions and every category's activity is the sum of the amounts
\* of its transactions, however the calls were interleaved.
C23_NoLostRecalculation ==
    AllCompleted => AggregatesMatch

\* C25: whenever no call is in progress, one session alone having called
\* the service and any of its calls possibly having failed or crashed part
\* way, every stored transaction is reflected in the aggregates: the
\* account's cleared_balance and every category's activity are the sums of
\* the amounts of their transactions.
C25_CreateAndRecalculateAtomic ==
    ((\A s \in DOMAIN run : run[s].pc \in Resting) /\ run["s2"].calls = 0) =>
        AggregatesMatch

\* C27: whenever the calls of the two sessions have all completed, none
\* having failed, every category satisfies available = assigned - activity,
\* however a moveMoney was interleaved with the recalculation of a
\* transaction call.
C27_EnvelopeAfterInterleaving ==
    AllCompleted =>
        \A c \in CategoryIds :
            categories[c].available = categories[c].assigned - categories[c].activity

RECURSIVE SumAssigned(_, _)
SumAssigned(C, S) ==
    IF S = {} THEN 0
    ELSE LET c == CHOOSE x \in S : TRUE
         IN  C[c].assigned + SumAssigned(C, S \ {c})

\* C30: with one session calling the service, one call after the other,
\* the sum of assigned over all categories is what it was at the start
\* whenever no call is in progress, a moveMoney that failed after its first
\* write included; and a moveMoney that completes has lowered from.assigned
\* and raised to.assigned by the amount and left both activities as they
\* were.
C30_MoveMoneyConserves ==
    [][run'["s2"].calls = 0 =>
         /\ run'["s1"].pc \in Resting => SumAssigned(categories', CategoryIds) = 0
         /\ (run["s1"].pc = "moveWriteTo" /\ run'["s1"].pc = "done") =>
               LET st == run["s1"] IN
               /\ categories'[st.from].assigned = st.fromDoc.assigned - MoveAmount
               /\ categories'[st.to].assigned = st.toDoc.assigned + MoveAmount
               /\ categories'[st.from].activity = st.fromDoc.activity
               /\ categories'[st.to].activity = st.toDoc.activity]_vars

(***************************************************************************)
(* The resolve specification: the flagged transactions of an interactive   *)
(* import and the buttons of the FlaggedTransactionsModal, one click at a  *)
(* time.  `run` keeps the last click: the transaction, the position of the *)
(* flag in the list shown, and the flags the transaction had.              *)
(***************************************************************************)
NoClick == [clicked |-> FALSE, id |-> 0, shown |-> 0, before |-> NoFlags]

InitResolve ==
    /\ transactions = {}
    /\ categories = [c \in CategoryIds |-> NewCategory]
    /\ accounts = ImportAccounts
    /\ config = [u \in Users |-> IF u = "u1" THEN ValidConfig ELSE NoConfig]
    /\ now = 0
    /\ tokenCall = NoTokenCall
    /\ unread = {"m1", "m2"}
    /\ run = NoClick

\* The import of an unread message with the flags of its candidate.
ImportFlagged == ProcessEmailTransactionFrom(Candidates)

\* The button of one flag shown for a transaction.
ClickResolveFlag ==
    \E old \in transactions :
        \E flagIndex \in DOMAIN UnresolvedFlags(old.flags) :
            /\ HandleResolveFlagOn(old, flagIndex)
            /\ run' = [clicked |-> TRUE, id |-> old.id, shown |-> flagIndex,
                       before |-> old.flags]

NextResolve == ImportFlagged \/ ClickResolveFlag

SpecResolve == InitResolve /\ [][NextResolve]_vars

\* The place, in the transaction's flag list, of the flag shown at position k.
PlaceOfShown(flags, k) ==
    CHOOSE i \in DOMAIN flags :
        ~flags[i].resolved /\ Cardinality({j \in 1..i : ~flags[j].resolved}) = k

\* C26: after the click on the button of an unresolved flag f of a
\* transaction, the transaction's flags are those it had with exactly f
\* resolved, wherever f stands in the list and whichever flags were
\* resolved before.
C26_ResolvesTheFlagShown ==
    run.clicked =>
        \E t \in transactions :
            /\ t.id = run.id
            /\ t.flags = [run.before EXCEPT ![PlaceOfShown(run.before, run.shown)].resolved = TRUE]

(***************************************************************************)
(* The refresh specification: the getGmailAccessToken calls that may run   *)
(* at the same time for one user (the fetches Settings starts together for *)
(* two linked domains, and the scheduled run), each taken await by await:  *)
(* the read of the token record, the refresh request, the write.  `run`    *)
(* keeps, per call, the record it read and the token it holds.             *)
(***************************************************************************)
TokenCallers == {"d1", "d2", "hourly"}
CallerImpl(k) == IF k = "hourly" THEN "server" ELSE "client"

IdleCaller == [pc |-> "idle", rec |-> NoConfig, token |-> None, expiresIn |-> 0]

InitRefresh ==
    /\ transactions = {}
    /\ categories = [c \in CategoryIds |-> NewCategory]
    /\ accounts = ImportAccounts
    /\ \E c \in {ValidConfig, ExpiredConfig, PopupOnlyConfig} :
          config = [u \in Users |-> IF u = TokenUser THEN c ELSE NoConfig]
    /\ now \in {0, MaxNow}
    /\ tokenCall = NoTokenCall
    /\ unread = {}
    /\ run = [k \in TokenCallers |-> IdleCaller]

\* The read of the token record and the decision taken on it: return the
\* stored token, send a refresh request, ask for consent, or throw.
TokenRead(k) ==
    /\ run[k].pc = "idle"
    /\ \E ok \in BOOLEAN :
         LET rec == config[TokenUser]
             st == [run[k] EXCEPT !.rec = rec]
         IN  SetRun(k,
                IF ~ok THEN [st EXCEPT !.pc = "failed"]
                ELSE IF CallerImpl(k) = "server"
                THEN IF ~rec.exists \/ Falsy(rec.refresh) THEN [st EXCEPT !.pc = "failed"]
                     ELSE IF rec.access # None /\ rec.expiry > now + TokenBuffer
                          THEN [st EXCEPT !.pc = "done", !.token = rec.access]
                     ELSE [st EXCEPT !.pc = "refreshing"]
                ELSE IF rec.exists /\ rec.access # None /\ rec.expiry # 0
                     THEN IF rec.expiry > now + TokenBuffer
                          THEN [st EXCEPT !.pc = "done", !.token = rec.access]
                          ELSE IF ~Falsy(rec.refresh) THEN [st EXCEPT !.pc = "refreshing"]
                          ELSE [st EXCEPT !.pc = "popup"]
                     ELSE [st EXCEPT !.pc = "popup"])
    /\ UNCHANGED <<transactions, categories, accounts, config, now, tokenCall, unread>>

\* The answer of the token endpoint to the refresh request in flight.
RefreshReturn(k) ==
    /\ run[k].pc = "refreshing"
    /\ \E answer \in RunEndpointAnswers :
         SetRun(k, IF answer.ok
                   THEN [run[k] EXCEPT !.pc = "storing", !.token = answer.access_token,
                                       !.expiresIn = answer.expires_in]
                   ELSE IF CallerImpl(k) = "server" THEN [run[k] EXCEPT !.pc = "failed"]
                   ELSE [run[k] EXCEPT !.pc = "popup"])
    /\ UNCHANGED <<transactions, categories, accounts, config, now, tokenCall, unread>>

\* The write of the refreshed token.
RefreshStore(k) ==
    /\ run[k].pc = "storing"
    /\ \E ok \in BOOLEAN :
         LET st == run[k]
         IN  IF ok
             THEN /\ config' = [config EXCEPT ![TokenUser] =
                        IF CallerImpl(k) = "server"
                        THEN [config[TokenUser] EXCEPT !.access = st.token,
                                                       !.expiry = now + ServerExpiresIn]
                        ELSE StoreGmailTokens(config[TokenUser], now, st.rec.refresh,
                                              st.token, st.expiresIn)]
                  /\ SetRun(k, [st EXCEPT !.pc = "done"])
             ELSE /\ UNCHANGED config
                  /\ SetRun(k, [st EXCEPT !.pc = "failed", !.token = None])
    /\ UNCHANGED <<transactions, categories, accounts, now, tokenCall, unread>>

\* The consent popup of the browser and the write of what it yields.
ConsentPopup(k) ==
    /\ run[k].pc = "popup"
    /\ \E popup \in RunPopupAnswers :
         LET res == ClientAuthorize(config[TokenUser], now, 0, popup)
         IN  /\ config' = [config EXCEPT ![TokenUser] = res.config]
             /\ SetRun(k, IF res.result = "throw" THEN [run[k] EXCEPT !.pc = "failed"]
                           ELSE [run[k] EXCEPT !.pc = "done", !.token = res.token])
    /\ UNCHANGED <<transactions, categories, accounts, now, tokenCall, unread>>

NextRefresh ==
    \/ \E k \in DOMAIN run : TokenRead(k)
    \/ \E k \in DOMAIN run : RefreshReturn(k)
    \/ \E k \in DOMAIN run : RefreshStore(k)
    \/ \E k \in DOMAIN run : ConsentPopup(k)

SpecRefresh == InitRefresh /\ [][NextRefresh]_vars

RefreshesInFlight == {k \in DOMAIN run : run[k].pc = "refreshing"}

\* C24: however the token calls of one user interleave, at most one refresh
\* request of that user is in flight at any time.
C24_SingleRefreshInFlight ==
    Cardinality(RefreshesInFlight) <= 1

(***************************************************************************)
(* The approval specification: the scan-and-approve flow of the            *)
(* Transactions view for the signed-in user.  handleScanInbox parses the   *)
(* unread messages of the linked domains and shows the candidates; the     *)
(* user approves or denies them; handleProcessApprovals hands the e-mail   *)
(* of every approved item to processEmailTransaction, which asks the       *)
(* extraction model again.  Here run holds the view's state.               *)
(***************************************************************************)
ApprovalUser == "u1"
NoPending == <<>>
IdleView ==
    [pc |-> "idle", pending |-> NoPending, approvedIndices |-> {}, queue |-> <<>>,
     imported |-> 0, skipped |-> 0]

InitApprove ==
    /\ transactions = {}
    /\ categories = [c \in CategoryIds |-> NewCategory]
    /\ accounts = ImportAccounts
    /\ config = [u \in Users |-> IF u = ApprovalUser THEN ValidConfig ELSE NoConfig]
    /\ now = 0
    /\ tokenCall = NoTokenCall
    /\ unread = {"m1", "m2"}
    /\ run = IdleView

\* The pending list handleScanInbox builds: in fetch order, the e-mails
\* whose sender matches an account and whose parse gave a candidate.
PendingOf(emails, answer) ==
    LET matched(m) == FindAccountByEmailDomain(accounts, ApprovalUser, Emails[m].from) # None
        kept == SelectSeq(emails, LAMBDA m : matched(m) /\ answer[m].ok)
    IN  [i \in DOMAIN kept |-> [email |-> kept[i], parsed |-> answer[kept[i]]]]

\* handleScanInbox: fetch from every linked domain, parse each e-mail
\* (parseEmailWithGemini without the received date), open the approval
\* modal with nothing approved when at least one candidate was parsed.
HandleScanInbox ==
    /\ run.pc = "idle"
    /\ LET emails == FetchedEmails(ApprovalUser, LinkedDomains(accounts, ApprovalUser), {})
       IN  \E answer \in [Range(emails) -> ParseResults] :
               LET pending == PendingOf(emails, answer)
               IN  run' = IF pending = NoPending
                          THEN run
                          ELSE [run EXCEPT !.pc = "review", !.pending = pending,
                                           !.approvedIndices = {}]
    /\ UNCHANGED <<transactions, categories, accounts, config, now, tokenCall, unread>>

\* handleApproveTransaction / handleDenyTransaction for one shown item.
HandleApproveTransaction ==
    /\ run.pc = "review"
    /\ \E index \in DOMAIN run.pending :
           run' = [run EXCEPT !.approvedIndices = run.approvedIndices \cup {index}]
    /\ UNCHANGED <<transactions, categories, accounts, config, now, tokenCall, unread>>

HandleDenyTransaction ==
    /\ run.pc = "review"
    /\ \E index \in DOMAIN run.pending :
           run' = [run EXCEPT !.approvedIndices = run.approvedIndices \ {index}]
    /\ UNCHANGED <<transactions, categories, accounts, config, now, tokenCall, unread>>

HandleApproveAll ==
    /\ run.pc = "review"
    /\ run' = [run EXCEPT !.approvedIndices = DOMAIN run.pending]
    /\ UNCHANGED <<transactions, categories, accounts, config, now, tokenCall, unread>>

HandleDenyAll ==
    /\ run.pc = "review"
    /\ run' = [run EXCEPT !.approvedIndices = {}]
    /\ UNCHANGED <<transactions, categories, accounts, config, now, tokenCall, unread>>

\* The orders in which a Set of indices may have been filled.
OrdersOf(S) ==
    {q \in [1..Cardinality(S) -> S] : \A i, j \in DOMAIN q : i # j => q[i] # q[j]}

\* The view once the modal is closed: nothing pending, nothing approved.
CloseModal(st) ==
    [st EXCEPT !.pc = "idle", !.pending = NoPending, !.approvedIndices = {},
               !.queue = <<>>]

\* handleProcessApprovals, its start: with nothing approved the modal only
\* closes; otherwise the loop runs over the approved indices in the order
\* they were added.
ProcessApprovalsStart ==
    /\ run.pc = "review"
    /\ IF run.approvedIndices = {}
       THEN run' = [run EXCEPT !.pc = "idle"]
       ELSE \E q \in OrdersOf(run.approvedIndices) :
                run' = [run EXCEPT !.pc = "processing", !.queue = q,
                                   !.imported = 0, !.skipped = 0]
    /\ UNCHANGED <<transactions, categories, accounts, config, now, tokenCall, unread>>

\* One turn of the loop: processEmailTransaction(uid, pending.email,
\* accounts) matches the account, parses the e-mail anew, computes the
\* flags and calls addTransaction; a success is counted and the message is
\* marked read (a failure of the mark is only logged), anything else is
\* counted as skipped.
ProcessApproval ==
    /\ run.pc = "processing"
    /\ run.queue # <<>>
    /\ LET m == run.pending[Head(run.queue)].email
           account == FindAccountByEmailDomain(accounts, ApprovalUser, Emails[m].from)
           rest == [run EXCEPT !.queue = Tail(run.queue)]
       IN  \E parsed \in ParseResults, marked \in BOOLEAN :
               IF account # None /\ parsed.ok /\ ~IsDuplicate(transactions, ApprovalUser, m)
               THEN LET flags == CheckTransactionFlags(Emails[m], parsed)
                        t == NewTransaction(transactions, ApprovalUser, parsed, account,
                                            m, flags)
                    IN  /\ Store(AddTransactionResult(transactions, categories,
                                                      accounts, t))
                        /\ unread' = IF marked THEN unread \ {m} ELSE unread
                        /\ run' = [rest EXCEPT !.imported = run.imported + 1]
               ELSE /\ run' = [rest EXCEPT !.skipped = run.skipped + 1]
                    /\ UNCHANGED <<transactions, categories, accounts, unread>>
    /\ UNCHANGED <<config, now, tokenCall>>

\* The end of the loop: the result message, the modal closed and emptied.
ProcessApprovalsEnd ==
    /\ run.pc = "processing"
    /\ run.queue = <<>>
    /\ run' = CloseModal(run)
    /\ UNCHANGED <<transactions, categories, accounts, config, now, tokenCall, unread>>

NextApprove ==
    \/ HandleScanInbox
    \/ HandleApproveTransaction
    \/ HandleDenyTransaction
    \/ HandleApproveAll
    \/ HandleDenyAll
    \/ ProcessApprovalsStart
    \/ ProcessApproval
    \/ ProcessApprovalsEnd

SpecApprove == InitApprove /\ [][NextApprove]_vars

\* The candidate shown for index i agrees with transaction t.
ShownAs(i, t) ==
    /\ run.pending[i].email = t.original_email_id
    /\ run.pending[i].parsed.date = t.date
    /\ run.pending[i].parsed.payee = t.payee
    /\ run.pending[i].parsed.amount = t.amount

\* C31: in the scan-and-approve flow a transaction is persisted only for an
\* item that is approved when processing runs, and it carries the date,
\* payee and amount of the candidate that was shown for that item.
C31_PersistedAsShown ==
    [][\A t \in transactions' \ transactions :
           \E i \in run.approvedIndices : ShownAs(i, t)]_vars

(***************************************************************************)
(* The opening-balance specification: the ledger operations on             *)
(* transactions, one call at a time, for an account created by             *)
(* AddAccountModal with the balance the user typed.  Here run remembers    *)
(* that balance; no operation reads it.  moveMoney, which writes           *)
(* categories only, is left out.                                           *)
(***************************************************************************)
InitOpening ==
    /\ transactions = {}
    /\ categories = [c \in CategoryIds |-> NewCategory]
    /\ \E balanceNum \in OpeningBalances :
          /\ accounts = [a \in AccountIds |->
                           IF a = "a1" THEN NewAccount("u1", balanceNum, "chase.com")
                           ELSE IF a = "a2" THEN NewAccount("u1", 0, None)
                           ELSE IF a = "b1" THEN NewAccount("u2", 0, "chase.com")
                           ELSE NewAccount("u3", 0, "chase.com")]
          /\ run = [account |-> "a1", opening |-> balanceNum]
    /\ config = [u \in Users |-> NoConfig]
    /\ now = 0
    /\ tokenCall = NoTokenCall
    /\ unread = {}

NextOpening ==
    \/ AddTransactionModalSubmit
    \/ ImportedEmailAdd
    \/ EditTransactionModalSubmit
    \/ HandleResolveFlag
    \/ HandleResolveAllFlags
    \/ EditTransactionModalDelete

SpecOpening == InitOpening /\ [][NextOpening]_vars

\* The accounts a step recalculates for certain: the account of a created
\* or deleted transaction; for an update, the old account when the account
\* or the status changed, and the new account when the account changed.
RecalculatedAccounts ==
    LET created == {t \in MutatedAfter : \A o \in MutatedBefore : o.id # t.id}
        deleted == {o \in MutatedBefore : \A t \in MutatedAfter : t.id # o.id}
        updated == {p \in MutatedBefore \X MutatedAfter : p[1].id = p[2].id}
    IN  ({t.account_id : t \in created \cup deleted}
         \cup {p[1].account_id : p \in {q \in updated :
                    q[2].account_id # q[1].account_id \/ q[2].status # q[1].status}}
         \cup {p[2].account_id : p \in {q \in updated :
                    q[2].account_id # q[1].account_id}}) \ {None}

\* C32: the balance typed when the account was created does not survive a
\* transaction mutation: once addTransaction, updateTransaction or
\* deleteTransaction has recalculated the account, its cleared_balance is
\* exactly the sum of the amounts of its transactions, whatever the opening
\* value was.
C32_OpeningNotPreserved ==
    [][\A a \in RecalculatedAccounts :
           accounts'[a].cleared_balance =
               AccountBalanceSum(transactions', LedgerUser, a)]_vars

\* C32 witness: the account was opened with a balance other than zero, has
\* been recalculated for a transaction it holds, and shows the sum of its
\* transactions, which is not the opening balance.
C32_Witness ==
    /\ run.opening # 0
    /\ \E t \in transactions : t.account_id = run.account
    /\ accounts[run.account].cleared_balance =
           AccountBalanceSum(transactions, LedgerUser, run.account)
    /\ accounts[run.account].cleared_balance # run.opening

(***************************************************************************)
(* The subscription specification: the store's initializeSubscriptions and *)
(* cleanup, called in any order by the auth-state listener, and the        *)
(* snapshots Firestore delivers to the listeners that are still            *)
(* registered.  Here run holds the store (its unsubscribers and the three  *)
(* collections it mirrors) and the listeners Firestore keeps.              *)
(***************************************************************************)
MaxInits == 4           \* initializeSubscriptions calls in one behaviour
StoreUser == "u1"
Collections == <<"categories", "transactions", "accounts">>
Listener(gen, kind) == [gen |-> gen, kind |-> kind]
EmptyStore == [categories |-> {}, transactions |-> {}, accounts |-> {}]

InitSubs ==
    /\ transactions =
          {NewTransaction({}, StoreUser, CHOOSE c \in Candidates : c.payee = "STARBUCKS",
                          "a1", "m1", NoFlags)}
    /\ categories = [c \in CategoryIds |-> NewCategory]
    /\ accounts = ImportAccounts
    /\ config = [u \in Users |-> NoConfig]
    /\ now = 0
    /\ tokenCall = NoTokenCall
    /\ unread = {}
    /\ run = [unsubscribers |-> <<>>, listeners |-> {}, inits |-> 0, loading |-> TRUE,
              store |-> EmptyStore]

\* What a snapshot of a collection of the user holds: the document ids.
SnapshotOf(kind) ==
    IF kind = "categories" THEN {c \in CategoryIds : categories[c].exists}
    ELSE IF kind = "transactions" THEN {t.id : t \in {x \in transactions : x.uid = StoreUser}}
    ELSE {a \in AccountIds : accounts[a].uid = StoreUser}

\* initializeSubscriptions(uid): three onSnapshot listeners are registered
\* and their unsubscribe functions replace the stored array.
InitializeSubscriptions ==
    /\ run.inits < MaxInits
    /\ LET gen == run.inits + 1
           unsubscribers == [i \in DOMAIN Collections |-> Listener(gen, Collections[i])]
       IN  run' = [run EXCEPT !.inits = gen,
                              !.listeners = run.listeners \cup Range(unsubscribers),
                              !.unsubscribers = unsubscribers]
    /\ UNCHANGED <<transactions, categories, accounts, config, now, tokenCall, unread>>

\* cleanup(): every stored unsubscribe function is called, then the array
\* and the three collections are emptied.
Cleanup ==
    /\ run' = [run EXCEPT !.listeners = run.listeners \ Range(run.unsubscribers),
                          !.unsubscribers = <<>>,
                          !.store = EmptyStore]
    /\ UNCHANGED <<transactions, categories, accounts, config, now, tokenCall, unread>>

\* Firestore delivers a snapshot to a registered listener: the callback
\* sets the collection of the store and loading to false.
Snapshot ==
    /\ \E l \in run.listeners :
           run' = [run EXCEPT !.store[l.kind] = SnapshotOf(l.kind), !.loading = FALSE]
    /\ UNCHANGED <<transactions, categories, accounts, config, now, tokenCall, unread>>

NextSubs == InitializeSubscriptions \/ Cleanup \/ Snapshot

SpecSubs == InitSubs /\ [][NextSubs]_vars

\* C33: for any sequence of initializeSubscriptions and cleanup calls, two
\* initializeSubscriptions in a row included, once cleanup has run (and
\* until the next initializeSubscriptions) no listener of an earlier
\* initializeSubscriptions is registered, so the store stays empty.
C33_NoListenerAfterCleanup ==
    run.unsubscribers = <<>> => (run.listeners = {} /\ run.store = EmptyStore)

(***************************************************************************)
(* The revocation specification: one scheduled run over three users who    *)
(* hold tokens, while any of them may have the tokens deleted              *)
(* (deleteGmailTokens) and, once deleted, stored again by the consent      *)
(* popup (authorizeGmailAccess), before or during the run.                 *)
(***************************************************************************)
InitRevoke ==
    /\ transactions = {}
    /\ categories = [c \in CategoryIds |-> NewCategory]
    /\ accounts = ImportAccounts
    /\ \E c1 \in {ValidConfig, ExpiredConfig} :
          config = [u \in Users |-> IF u = "u1" THEN c1 ELSE ValidConfig]
    /\ now = 0
    /\ tokenCall = NoTokenCall
    /\ unread = Msgs
    /\ run = [r \in {"r1"} |-> IdleRun("scheduled")]

\* The record deleteGmailTokens leaves behind.
IsRevoked(rec) == rec = DeleteGmailTokens(rec)

\* deleteGmailTokens(uid) for a user who holds tokens.
RevokeGmailTokens(u) ==
    /\ config[u].exists /\ ~IsRevoked(config[u])
    /\ config' = [config EXCEPT ![u] = DeleteGmailTokens(config[u])]
    /\ UNCHANGED <<transactions, categories, accounts, now, tokenCall, unread, run>>

\* authorizeGmailAccess() by a user whose tokens were deleted: the consent
\* popup, then storeGmailTokens.
AuthorizeGmailAccess(u) ==
    /\ IsRevoked(config[u])
    /\ \E popup \in {p \in RunPopupAnswers : p.ok} :
           config' = [config EXCEPT ![u] = ClientAuthorize(config[u], now, 0, popup).config]
    /\ UNCHANGED <<transactions, categories, accounts, now, tokenCall, unread, run>>

NextRevoke ==
    \/ \E u \in Users : RevokeGmailTokens(u)
    \/ \E u \in Users : AuthorizeGmailAccess(u)
    \/ \E r \in DOMAIN run : SStart(r)
    \/ \E r \in DOMAIN run : SToken(r)
    \/ \E r \in DOMAIN run : SFetch(r)
    \/ \E r \in DOMAIN run : SFinish(r)
    \/ \E r \in DOMAIN run : MatchAndParse(r)
    \/ \E r \in DOMAIN run : DedupQuery(r)
    \/ \E r \in DOMAIN run : SAdd(r)
    \/ \E r \in DOMAIN run : SMark(r)

SpecRevoke == InitRevoke /\ [][NextRevoke]_vars

RevokedUsers == {u \in Users : IsRevoked(config[u])}

\* C34: a scheduled run that starts while a user's tokens are revoked does
\* not enumerate that user, and a run works only on users it enumerated:
\* the users it still has to visit, the users it tried and the user whose
\* token, mailbox and transactions it is using all come from the
\* enumeration made at its start, which later storing does not change.
C34_RevokedUserNotProcessed ==
    [][\A r \in DOMAIN run :
           /\ (run[r].pc = "idle" /\ run'[r].pc # "idle")
                  => Range(run'[r].enumerated) \cap RevokedUsers = {}
           /\ run[r].pc # "idle" => run'[r].enumerated = run[r].enumerated
           /\ Range(run'[r].users) \subseteq Range(run'[r].enumerated)
           /\ Range(run'[r].tried) \subseteq Range(run'[r].enumerated)
           /\ run'[r].uid \in Range(run'[r].tried) \cup {None}]_vars

\* C34 witness: a run that started after u1's tokens were revoked is done;
\* it imported for another user, never tried u1, and u1's notifications
\* are still unread.
C34_Witness ==
    \E r \in DOMAIN run :
        /\ run[r].pc = "done"
        /\ IsRevoked(config["u1"])
        /\ "u1" \notin Range(run[r].enumerated)
        /\ run[r].created # {}
        /\ {"m1", "m2"} \subseteq unread

(***************************************************************************)
(* Isolation of the users in a scheduled run (SpecSched).                  *)
(***************************************************************************)
\* The user a step of run r works for: the next user when the run is about
\* to ask for a token, the current user inside the user's processing, no
\* one at discovery and at the end.
ActingUser(r) ==
    IF run[r].pc = "idle" THEN None
    ELSE IF run[r].pc = "token"
         THEN IF run[r].users = <<>> THEN None ELSE Head(run[r].users)
    ELSE run[r].uid

\* What belongs to user v: the token record, the accounts, the
\* transactions and the unread notifications of the mailbox.
OwnTransactions(T, v) == {t \in T : t.uid = v}
OwnAccounts(A, v) == [a \in {x \in AccountIds : A[x].uid = v} |-> A[a]]
OwnUnread(U, v) == {m \in U : Emails[m].uid = v}

\* The step of run r left everything of the users it does not work for as
\* it was, the outcomes the run recorded for their messages included.
WritesOnlyOwn(r) ==
    \A v \in Users \ {ActingUser(r)} :
        /\ config'[v] = config[v]
        /\ OwnAccounts(accounts', v) = OwnAccounts(accounts, v)
        /\ OwnTransactions(transactions', v) = OwnTransactions(transactions, v)
        /\ OwnUnread(unread', v) = OwnUnread(unread, v)
        /\ \A m \in Msgs : Emails[m].uid = v => run'[r].outcome[m] = run[r].outcome[m]

\* Other users' data, replaced: every account of another user linked to
\* domain d, and a transaction of every other user for every message.
ForeignDomains == {None, "chase.com", "boa.com", "mail.boa.com"}
ForeignTransactions(u) ==
    {NewTransaction({}, v, CHOOSE c \in Candidates : c.payee = "PAYROLL", None, m, NoFlags) :
        v \in Users \ {u}, m \in Msgs}
WithForeignAccounts(A, u, d) ==
    [a \in AccountIds |-> IF A[a].uid = u THEN A[a] ELSE NewAccount(A[a].uid, 1000, d)]

\* What the processing of u reads (the linked domains, the account of a
\* sender, the duplicate query, the listed messages) is the same whatever
\* the other users hold.
ReadsOnlyOwn(u) ==
    /\ \A d \in ForeignDomains :
          LET A2 == WithForeignAccounts(accounts, u, d)
          IN  /\ UserAccounts(A2, u) = UserAccounts(accounts, u)
              /\ LinkedDomains(A2, u) = LinkedDomains(accounts, u)
              /\ \A m \in Msgs :
                    FindAccountByEmailDomain(A2, u, Emails[m].from)
                        = FindAccountByEmailDomain(accounts, u, Emails[m].from)
    /\ \A X \in {{}, ForeignTransactions(u)}, m \in Msgs :
          IsDuplicate(OwnTransactions(transactions, u) \cup X, u, m)
              = IsDuplicate(transactions, u, m)
    /\ \A D \in SUBSET ForeignDomains :
          ListedMessages(u, D) \subseteq OwnUnread(unread, u)

\* C35: processing user u in a run reads and writes only u's own token
\* record, accounts, transactions and mailbox: every step leaves the data
\* of every other user unchanged, and what it reads for u does not change
\* when the other users' accounts and transactions are replaced, so the
\* outcome for u is the same whoever is processed before or after.
C35_UsersAreIsolated ==
    [][\A r \in DOMAIN run :
           /\ WritesOnlyOwn(r)
           /\ ActingUser(r) # None => ReadsOnlyOwn(ActingUser(r))]_vars

\* C35 witness: the run is done and created transactions for two users,
\* each under its owner's account.
C35_Witness ==
    \E r \in DOMAIN run : \E t1, t2 \in transactions :
        /\ run[r].pc = "done"
        /\ t1.uid # t2.uid
        /\ accounts[t1.account_id].uid = t1.uid
        /\ accounts[t2.account_id].uid = t2.uid

====
